---- MODULE Spec2Model ----
(***************************************************************************)
(* Model of pypsa_nza_plotter:                                             *)
(*   models/plot_config.py   PlotConfig, PRESET_CONFIGS, get_preset_config *)
(*   models/series_config.py SeriesConfig                                  *)
(*   core/, extras/, experimental/  the rendering functions                *)
(*   utils.py and the renderers' modules  save_plot                        *)
(* Python objects live in a heap (objs) and are reached through the        *)
(* caller's variables (h) or the module-level preset registry.             *)
(***************************************************************************)
EXTENDS Integers, Sequences, FiniteSets, TLC

VARIABLES
    objs,      \* heap of PlotConfig objects: object id -> field record, or Free
    registry,  \* PRESET_CONFIGS: preset name -> object id
    h,         \* the caller's variables: handle -> object id, 0 when unbound
    now,       \* the wall clock read by datetime.now()
    nupd,      \* number of mutations made since the last construction
    series,    \* the caller's SeriesConfig object, or NoSeries
    last,      \* the last call made: its name, arguments and outcome
    sobj,      \* the caller's series variables: handle -> SeriesConfig object
    arrs,      \* heap of numpy arrays: array id -> elements, or Free
    figs,      \* the figures created so far, in order of creation
    fs         \* the file system: its directories and files, and the
               \* number of export calls made

\* The state of the series heap, the figures and the file system.
drawvars == <<sobj, arrs, figs, fs>>

vars == <<objs, registry, h, now, nupd, series, last, sobj, arrs, figs, fs>>

(***************************************************************************)
(* Bounds of the model.                                                    *)
(***************************************************************************)
MaxKw == 2        \* keyword arguments given to one constructor call
MaxUpdates == 1   \* mutations of config objects between two constructions
MaxClock == 1     \* clock ticks
MaxLen == 2       \* length of a series' data arrays
MaxItems == 3     \* length a list field may grow to

(***************************************************************************)
(* Python values. Every value is a tagged record, so that values of        *)
(* different Python types can be compared (None with a float, ...).        *)
(* Numbers are exact rationals n/d in lowest terms (9 == 9.0 holds).       *)
(***************************************************************************)
None == [t |-> "None"]
Str(s) == [t |-> "str", s |-> s]
Bool(b) == [t |-> "bool", b |-> b]

RECURSIVE Gcd(_, _)
Gcd(a, b) == IF b = 0 THEN a ELSE Gcd(b, a % b)

Num(n, d) == LET g == Gcd(n, d) IN [t |-> "num", n |-> n \div g, d |-> d \div g]
IntV(n) == Num(n, 1)

\* Python's true division a / b of two numbers, b non-zero.
TrueDiv(a, b) == Num(a.n * b.d, a.d * b.n)

Tuple(items) == [t |-> "tuple", items |-> items]
List(items) == [t |-> "list", items |-> items]
Dict(items) == [t |-> "dict", items |-> items]

\* datetime.now().isoformat() read when the clock shows c.
Stamp(c) == [t |-> "str", stamp |-> c]

\* The outcome of a call: a new object, a reference to an object that is
\* already in the heap, or a raised exception.
Return(v) == [ok |-> TRUE, fresh |-> TRUE, val |-> v]
ReturnRef(id) == [ok |-> TRUE, fresh |-> FALSE, ref |-> id]
Raise(e) == [ok |-> FALSE, exc |-> e, msg |-> <<>>]
RaiseMsg(e, msg) == [ok |-> FALSE, exc |-> e, msg |-> msg]

(***************************************************************************)
(* PlotConfig: the dataclass fields and their defaults.  The fields left   *)
(* out (fonts, colours, scales, the y_ twins of x_limits, x_ticks, ...)    *)
(* are plain fields handled exactly like title, dpi and show_grid: no code *)
(* of the class reads them.  PlainFields holds their names.                *)
(***************************************************************************)
FieldDefaults ==
    [ created            |-> None,
      figure_width       |-> IntV(8),
      figure_height      |-> IntV(6),
      dpi                |-> IntV(100),
      aspect_ratio       |-> None,
      tick_label_size    |-> IntV(10),
      x_tick_label_size  |-> None,
      y_tick_label_size  |-> None,
      axis_label_size    |-> IntV(12),
      x_axis_label_size  |-> None,
      y_axis_label_size  |-> None,
      title_size         |-> IntV(14),
      title_pad          |-> None,
      legend_font_size   |-> IntV(10),
      title              |-> Str(""),
      x_label            |-> Str(""),
      y_label            |-> Str(""),
      x_limits           |-> None,
      x_ticks            |-> None,
      show_top_spine     |-> Bool(TRUE),
      show_right_spine   |-> Bool(TRUE),
      show_legend        |-> Bool(TRUE),
      legend_location    |-> Str("best"),
      show_grid          |-> Bool(TRUE),
      grid_alpha         |-> Num(3, 10),
      subplot_adjust     |-> None ]

Fields == DOMAIN FieldDefaults

\* The names of the dataclass fields left out of FieldDefaults.
PlainFields ==
    { "version", "description", "figure_facecolor",
      "axes_facecolor", "tick_label_family", "tick_label_weight",
      "tick_label_color", "axis_label_family", "axis_label_weight",
      "axis_label_color", "axis_label_style", "title_family",
      "title_weight", "title_style", "title_color",
      "legend_font_family", "legend_font_weight",
      "legend_title_weight", "x_scale", "y_scale", "y_limits",
      "y_ticks", "x_tick_labels", "y_tick_labels",
      "show_minor_ticks", "show_bottom_spine", "show_left_spine",
      "legend_frameon", "legend_framealpha", "legend_shadow",
      "grid_which", "grid_axis", "grid_style", "grid_linewidth",
      "grid_color", "tight_layout" }

\* The methods of the class: attributes every instance has besides its fields.
MethodNames == {"to_dict", "to_yaml", "from_dict", "from_yaml", "copy", "update"}

\* The fields the defaulting pass fills from a shared size.
PerAxis == [ x_tick_label_size |-> "tick_label_size",
             y_tick_label_size |-> "tick_label_size",
             x_axis_label_size |-> "axis_label_size",
             y_axis_label_size |-> "axis_label_size" ]

\* Variant: created is never stamped.
ApplyCreatedNever(self, clock) == self

\* __post_init__, first step: created is stamped when it is None.
ApplyCreated(self, clock) ==
    IF self.created = None THEN [self EXCEPT !.created = Stamp(clock)] ELSE self

\* __post_init__, second step: an aspect ratio overrides figure_height.
\* Dividing by a ratio of 0 raises ZeroDivisionError.
AspectRaises(self) == self.aspect_ratio # None /\ self.aspect_ratio.n = 0

\* Variant: the height is the width times the ratio.
ApplyAspectTimes(self) ==
    IF self.aspect_ratio # None
    THEN [self EXCEPT !.figure_height =
                        Num(self.figure_width.n * self.aspect_ratio.n,
                            self.figure_width.d * self.aspect_ratio.d)]
    ELSE self

ApplyAspect(self) ==
    IF self.aspect_ratio # None
    THEN [self EXCEPT !.figure_height = TrueDiv(self.figure_width, self.aspect_ratio)]
    ELSE self

\* Variant: every per-axis size left None takes tick_label_size.
ApplyPerAxisTickOnly(self) ==
    [f \in DOMAIN self |->
       IF f \in DOMAIN PerAxis /\ self[f] = None THEN self.tick_label_size ELSE self[f]]

\* __post_init__, third step: each per-axis size left None takes the shared one.
ApplyPerAxis(self) ==
    [f \in DOMAIN self |->
       IF f \in DOMAIN PerAxis /\ self[f] = None THEN self[PerAxis[f]] ELSE self[f]]

PostInit(self, clock) ==
    LET s1 == ApplyCreated(self, clock)
    IN  IF AspectRaises(s1)
        THEN Raise("ZeroDivisionError")
        ELSE Return(ApplyPerAxis(ApplyAspect(s1)))

\* PlotConfig(**kwargs): the generated __init__, then __post_init__.
PlotConfigNew(kwargs, clock) ==
    IF ~(DOMAIN kwargs \subseteq Fields)
    THEN Raise("TypeError")
    ELSE PostInit(kwargs @@ FieldDefaults, clock)

(***************************************************************************)
(* Export and import.                                                      *)
(***************************************************************************)
\* dataclasses.asdict: the fields only, lists, tuples and dicts rebuilt,
\* every other value deep-copied.
AsDictInner(v) ==
    CASE v.t = "list" -> List(v.items)
      [] v.t = "tuple" -> Tuple(v.items)
      [] v.t = "dict" -> Dict(v.items)
      [] OTHER -> v

AsDict(self) == [f \in Fields |-> AsDictInner(self[f])]

\* to_dict: asdict, then x_limits (and y_limits) turned into a list.
ToDict(self) ==
    LET data == AsDict(self)
    IN  [data EXCEPT !.x_limits = IF @ # None THEN List(@.items) ELSE @]

\* yaml.dump of a dict: one node per key. A tuple is written with the tag
\* python/tuple, which yaml.safe_load refuses.
YamlNode(v) ==
    CASE v.t = "list" -> [y |-> "seq", items |-> v.items]
      [] v.t = "dict" -> [y |-> "map", items |-> v.items]
      [] v.t = "tuple" -> [y |-> "python/tuple", items |-> v.items]
      [] OTHER -> [y |-> "scalar", v |-> v]

YamlDump(data) == [k \in DOMAIN data |-> YamlNode(data[k])]

SafeLoadNode(n) ==
    CASE n.y = "seq" -> List(n.items)
      [] n.y = "map" -> Dict(n.items)
      [] OTHER -> n.v

SafeLoad(doc) ==
    IF \E k \in DOMAIN doc : doc[k].y = "python/tuple"
    THEN Raise("ConstructorError")
    ELSE Return([k \in DOMAIN doc |-> SafeLoadNode(doc[k])])

\* to_yaml: the document written to the file.
ToYaml(self) == YamlDump(ToDict(self))

\* Variant: no key is dropped.
FromDictUnfiltered(data, clock) ==
    LET d1 == [k \in DOMAIN data |->
                 IF k = "x_limits" /\ data[k] # None
                 THEN Tuple(data[k].items) ELSE data[k]]
    IN  PlotConfigNew(d1, clock)

\* from_dict: x_limits (and y_limits) back to a tuple, the keys that are not
\* parameters of PlotConfig dropped, then the constructor.
FromDict(data, clock) ==
    LET d1 == [k \in DOMAIN data |->
                 IF k = "x_limits" /\ data[k] # None
                 THEN Tuple(data[k].items) ELSE data[k]]
        valid_keys == Fields
        filtered_data == [k \in DOMAIN d1 \cap valid_keys |-> d1[k]]
    IN  PlotConfigNew(filtered_data, clock)

\* from_yaml: yaml.safe_load, then from_dict.
FromYaml(doc, clock) ==
    LET r == SafeLoad(doc)
    IN  IF r.ok THEN FromDict(r.val, clock) ELSE r

\* copy
CopyOp(self, clock) == FromDict(ToDict(self), clock)

\* update(key=value): setattr when the object has the attribute. A call with
\* several keyword arguments is the same loop body run once per key.
HasAttr(self, key) == key \in DOMAIN self \cup PlainFields \cup MethodNames

Ext(f, k, v) == [x \in DOMAIN f \cup {k} |-> IF x = k THEN v ELSE f[x]]

\* Variant: the defaulting pass is run again after the attribute is set.
UpdateOpDefaulting(self, key, value) ==
    IF HasAttr(self, key) THEN ApplyPerAxis(ApplyAspect(Ext(self, key, value)))
    ELSE self

UpdateOp(self, key, value) ==
    IF HasAttr(self, key) THEN Ext(self, key, value) ELSE self

\* Variant: the registry's own object is handed out.
GetPresetConfigShared(preset_name, reg, heap, clock) ==
    IF preset_name \notin DOMAIN reg
    THEN Raise("ValueError")
    ELSE ReturnRef(reg[preset_name])

\* get_preset_config: a copy of the registry's object, or ValueError.
GetPresetConfig(preset_name, reg, heap, clock) ==
    IF preset_name \notin DOMAIN reg
    THEN Raise("ValueError")
    ELSE CopyOp(heap[reg[preset_name]], clock)

(***************************************************************************)
(* SeriesConfig: the dataclass fields, their defaults and __post_init__.   *)
(***************************************************************************)
SeriesDefaults ==
    [ x                |-> None,
      label            |-> Str(""),
      line_style       |-> Str("-"),
      line_width       |-> Num(3, 2),
      line_alpha       |-> IntV(1),
      marker           |-> Str(""),
      marker_size      |-> IntV(6),
      marker_facecolor |-> None,
      marker_edgecolor |-> None,
      marker_edgewidth |-> Num(1, 2),
      hatch            |-> None,
      color            |-> Str("#0066CC"),
      fill_below       |-> Bool(FALSE),
      fill_color       |-> None,
      fill_alpha       |-> Num(3, 10),
      fill_hatch       |-> None,
      hatch_color      |-> None,
      z_order          |-> None ]

SeriesFields == DOMAIN SeriesDefaults \cup {"y"}

\* np.array(values): a new array holding the elements of a list.
NpArray(v) == [t |-> "ndarray", items |-> v.items]

\* y, and x when it is given, become arrays.
ConvertData(self) ==
    [self EXCEPT !.y = NpArray(@), !.x = IF @ # None THEN NpArray(@) ELSE @]

\* Variant: only an x longer than y is refused.
LengthMismatchLonger(self) ==
    self.x # None /\ Len(self.x.items) > Len(self.y.items)

\* The length check, made only when x is given.
LengthMismatch(self) ==
    self.x # None /\ Len(self.x.items) # Len(self.y.items)

\* Variant: the marker edge colour is not defaulted.
ApplyMarkerColorsFaceOnly(self) ==
    [self EXCEPT !.marker_facecolor = IF @ = None THEN self.color ELSE @]

\* The marker colours default to the series colour.
ApplyMarkerColors(self) ==
    [self EXCEPT !.marker_facecolor = IF @ = None THEN self.color ELSE @,
                 !.marker_edgecolor = IF @ = None THEN self.color ELSE @]

\* The fill colour defaults to the series colour.
ApplyFillColor(self) ==
    [self EXCEPT !.fill_color = IF @ = None THEN self.color ELSE @]

\* Variant: the hatch colour defaults to the series colour.
ApplyHatchColorFromPrimary(self) ==
    [self EXCEPT !.hatch_color = IF @ = None THEN self.color ELSE @]

\* The hatch colour defaults to the fill colour.
ApplyHatchColor(self) ==
    [self EXCEPT !.hatch_color = IF @ = None THEN self.fill_color ELSE @]

SeriesPostInit(self) ==
    LET s1 == ConvertData(self)
    IN  IF LengthMismatch(s1)
        THEN RaiseMsg("ValueError",
                      <<"x and y data must have same length",
                        Len(s1.x.items), Len(s1.y.items)>>)
        ELSE Return(ApplyHatchColor(ApplyFillColor(ApplyMarkerColors(s1))))

\* SeriesConfig(**kwargs): y is required.
SeriesConfigNew(kwargs) ==
    IF "y" \notin DOMAIN kwargs \/ ~(DOMAIN kwargs \subseteq SeriesFields)
    THEN Raise("TypeError")
    ELSE SeriesPostInit(kwargs @@ SeriesDefaults)

Free == [t |-> "free"]

(***************************************************************************)
(* The preset registry, built when the module is imported (clock 0).       *)
(***************************************************************************)
PresetNames ==
    <<"default", "publication", "presentation", "nature_style", "science_style">>

PresetKwargs ==
    [ default       |-> [k \in {} |-> None],
      publication   |-> [figure_width |-> IntV(6), figure_height |-> Num(9, 2),
                         dpi |-> IntV(300), tick_label_size |-> IntV(10),
                         axis_label_size |-> IntV(12), title_size |-> IntV(14),
                         grid_alpha |-> Num(1, 5)],
      presentation  |-> [figure_width |-> IntV(10), figure_height |-> Num(15, 2),
                         dpi |-> IntV(150), tick_label_size |-> IntV(14),
                         axis_label_size |-> IntV(16), title_size |-> IntV(18)],
      nature_style  |-> [figure_width |-> Num(7, 2), figure_height |-> Num(21, 8),
                         dpi |-> IntV(300), tick_label_size |-> IntV(7),
                         axis_label_size |-> IntV(8), title_size |-> IntV(8),
                         legend_font_size |-> IntV(7), show_grid |-> Bool(FALSE),
                         show_top_spine |-> Bool(FALSE),
                         show_right_spine |-> Bool(FALSE)],
      science_style |-> [figure_width |-> Num(33, 10), figure_height |-> Num(5, 2),
                         dpi |-> IntV(300), tick_label_size |-> IntV(6),
                         axis_label_size |-> IntV(7), title_size |-> IntV(8),
                         legend_font_size |-> IntV(6), show_grid |-> Bool(FALSE),
                         show_top_spine |-> Bool(FALSE),
                         show_right_spine |-> Bool(FALSE)] ]

NPresets == Len(PresetNames)

\* The caller's two config variables, as in cfg2 = PlotConfig.from_yaml(...).
Handles == {"cfg", "cfg2"}
Slot == [cfg |-> NPresets + 1, cfg2 |-> NPresets + 2]
ObjIds == 1 .. (NPresets + Cardinality(Handles))

PRESET_CONFIGS == [i \in 1 .. NPresets |->
                     PlotConfigNew(PresetKwargs[PresetNames[i]], 0).val]

NoSeries == [t |-> "NoSeries"]

\* The caller's series variables and the ids of the array heap: an object
\* holds two arrays.
SeriesHandles == {"s", "c"}
ArrIds == 1 .. 4

\* The working directory, as the components of its absolute path.
Cwd == <<"work">>

Init ==
    /\ objs = [i \in ObjIds |-> IF i <= NPresets THEN PRESET_CONFIGS[i] ELSE Free]
    /\ registry = [n \in {PresetNames[i] : i \in 1 .. NPresets} |->
                     CHOOSE i \in 1 .. NPresets : PresetNames[i] = n]
    /\ h = [v \in Handles |-> 0]
    /\ now = 0
    /\ nupd = 0
    /\ series = NoSeries
    /\ last = [op |-> "import"]
    /\ sobj = [v \in SeriesHandles |-> NoSeries]
    /\ arrs = [i \in ArrIds |-> Free]
    /\ figs = <<>>
    /\ fs = [dirs |-> {<<>>, Cwd}, files |-> <<>>, saves |-> 0]

(***************************************************************************)
(* Inputs: the keyword arguments a caller passes.                          *)
(***************************************************************************)
KwPairs ==
    { <<"created", Str("2020-01-01")>>,
      <<"figure_width", IntV(10)>>,
      <<"figure_height", IntV(5)>>,
      <<"aspect_ratio", IntV(4)>>,
      <<"aspect_ratio", IntV(0)>>,
      <<"tick_label_size", IntV(9)>>,
      <<"x_tick_label_size", IntV(7)>>,
      <<"y_tick_label_size", IntV(7)>>,
      <<"axis_label_size", IntV(13)>>,
      <<"x_axis_label_size", IntV(11)>>,
      <<"y_axis_label_size", IntV(11)>>,
      <<"title", Str("roundtrip test")>>,
      <<"x_limits", Tuple(<<IntV(0), IntV(1)>>)>>,
      <<"x_ticks", List(<<IntV(1), IntV(2)>>)>>,
      <<"subplot_adjust", Dict([left |-> Num(1, 10)])>> }

EmptyKw == [k \in {} |-> None]

RECURSIVE KwUpTo(_, _)
KwUpTo(pairs, n) ==
    IF n = 0 THEN {EmptyKw}
    ELSE LET S == KwUpTo(pairs, n - 1)
         IN  S \cup {Ext(f, p[1], p[2]) : f \in S, p \in pairs}

Kwargs == KwUpTo(KwPairs, MaxKw)

\* The dicts a caller hands to from_dict, and (dumped) the documents a
\* caller hands to from_yaml: lists where a field holds a tuple, and keys of
\* the version 1 configuration that PlotConfig no longer has.
DictPairs ==
    { <<"created", Str("2020-01-01")>>,
      <<"figure_width", IntV(10)>>,
      <<"figure_height", IntV(5)>>,
      <<"aspect_ratio", IntV(2)>>,
      <<"tick_label_size", IntV(9)>>,
      <<"x_tick_label_size", IntV(7)>>,
      <<"y_axis_label_size", IntV(11)>>,
      <<"title", Str("roundtrip test")>>,
      <<"x_limits", List(<<IntV(0), IntV(1)>>)>>,
      <<"line_color", Str("#0066CC")>>,
      <<"marker", Str("o")>> }

DictLits == KwUpTo(DictPairs, MaxKw)

\* The attribute changes a caller makes.
UpdPairs ==
    { <<"figure_height", IntV(5)>>,
      <<"aspect_ratio", IntV(2)>>,
      <<"tick_label_size", IntV(9)>>,
      <<"x_tick_label_size", None>>,
      <<"title", Str("My Title")>>,
      <<"x_ticks", List(<<IntV(1), IntV(2)>>)>>,
      <<"line_color", Str("#0066CC")>> }

\* The data and the colours a caller gives a series.
DataSeqs == UNION {[1 .. n -> {IntV(1), IntV(2)}] : n \in 0 .. MaxLen}

SeriesColors ==
    [ color            |-> Str("#CC0000"),
      marker_facecolor |-> Str("white"),
      marker_edgecolor |-> Str("black"),
      fill_color       |-> Str("green"),
      hatch_color      |-> Str("gray") ]

\* The keyword arguments y, x (xopt is <<>> when x is omitted) and the colours
\* named in cs.
SeriesKw(y, xopt, cs) ==
    [k \in {"y"} \cup (IF xopt = <<>> THEN {} ELSE {"x"}) \cup cs |->
       IF k = "y" THEN List(y)
       ELSE IF k = "x" THEN List(xopt[1])
       ELSE SeriesColors[k]]

Bound == {v \in Handles : h[v] # 0}

(***************************************************************************)
(* Actions.                                                                *)
(***************************************************************************)
Tick ==
    /\ now < MaxClock
    /\ now' = now + 1
    /\ last' = [op |-> "tick"]
    /\ UNCHANGED <<objs, registry, h, nupd, series, drawvars>>

\* Bind the result r of a call to handle v: a new object takes v's slot of
\* the heap, a returned reference makes v name the object it refers to; a
\* raised exception binds nothing.
Bind(v, r) ==
    IF ~r.ok THEN UNCHANGED <<objs, h>>
    ELSE IF r.fresh
    THEN /\ objs' = [objs EXCEPT ![Slot[v]] = r.val]
         /\ h' = [h EXCEPT ![v] = Slot[v]]
    ELSE /\ h' = [h EXCEPT ![v] = r.ref]
         /\ UNCHANGED objs

Outcome(r) == IF r.ok THEN "" ELSE r.exc

\* cfg = PlotConfig(**kw), the first statement of a session.
Construct ==
    /\ h["cfg"] = 0
    /\ \E kw \in Kwargs :
        LET r == PlotConfigNew(kw, now) IN
        /\ Bind("cfg", r)
        /\ last' = [op |-> "construct", kwargs |-> kw, ok |-> r.ok,
                    exc |-> Outcome(r), dst |-> "cfg"]
        /\ UNCHANGED <<registry, now, nupd, series, drawvars>>

\* cfg = PlotConfig.from_dict(d)
FromDictCall ==
    /\ h["cfg"] = 0
    /\ \E d \in DictLits :
        LET r == FromDict(d, now) IN
        /\ Bind("cfg", r)
        /\ last' = [op |-> "from_dict", kwargs |-> d, ok |-> r.ok,
                    exc |-> Outcome(r), dst |-> "cfg"]
        /\ UNCHANGED <<registry, now, nupd, series, drawvars>>

\* cfg = PlotConfig.from_yaml(path), the file holding the document of d
FromYamlCall ==
    /\ h["cfg"] = 0
    /\ \E d \in DictLits :
        LET r == FromYaml(YamlDump(d), now) IN
        /\ Bind("cfg", r)
        /\ last' = [op |-> "from_yaml", kwargs |-> d, ok |-> r.ok,
                    exc |-> Outcome(r), dst |-> "cfg"]
        /\ UNCHANGED <<registry, now, nupd, series, drawvars>>

\* src.update(key=value)
Update ==
    \E v \in Bound, p \in UpdPairs :
        /\ nupd < MaxUpdates
        /\ nupd' = nupd + 1
        /\ objs' = [objs EXCEPT ![h[v]] = UpdateOp(@, p[1], p[2])]
        /\ last' = [op |-> "update", dst |-> v, key |-> p[1], value |-> p[2],
                    before |-> objs[h[v]]]
        /\ UNCHANGED <<registry, h, now, series, drawvars>>

\* cfg2 = cfg.copy()
Copy ==
    LET r == CopyOp(objs[h["cfg"]], now) IN
    /\ h["cfg"] # 0
    /\ Bind("cfg2", r)
    /\ last' = [op |-> "copy", src |-> "cfg", dst |-> "cfg2", ok |-> r.ok,
                exc |-> Outcome(r)]
    /\ UNCHANGED <<registry, now, nupd, series, drawvars>>

\* cfg2 = PlotConfig.from_dict(cfg.to_dict())
RoundTripDict ==
    LET r == FromDict(ToDict(objs[h["cfg"]]), now) IN
    /\ h["cfg"] # 0
    /\ Bind("cfg2", r)
    /\ last' = [op |-> "roundtrip_dict", src |-> "cfg", dst |-> "cfg2", ok |-> r.ok,
                exc |-> Outcome(r)]
    /\ UNCHANGED <<registry, now, nupd, series, drawvars>>

\* cfg.to_yaml(path); cfg2 = PlotConfig.from_yaml(path)
RoundTripYaml ==
    LET r == FromYaml(ToYaml(objs[h["cfg"]]), now) IN
    /\ h["cfg"] # 0
    /\ Bind("cfg2", r)
    /\ last' = [op |-> "roundtrip_yaml", src |-> "cfg", dst |-> "cfg2", ok |-> r.ok,
                exc |-> Outcome(r)]
    /\ UNCHANGED <<registry, now, nupd, series, drawvars>>

\* dst = get_preset_config(name)
GetPreset ==
    \E name \in DOMAIN registry \cup {"poster"}, dst \in Handles :
        LET r == GetPresetConfig(name, registry, objs, now) IN
        /\ Bind(dst, r)
        /\ last' = [op |-> "get_preset_config", name |-> name, dst |-> dst,
                    ok |-> r.ok, exc |-> Outcome(r)]
        /\ UNCHANGED <<registry, now, nupd, series, drawvars>>

\* dst.key = value, for a field of the class
Assign ==
    \E v \in Bound, p \in UpdPairs :
        /\ p[1] \in Fields
        /\ nupd < MaxUpdates
        /\ nupd' = nupd + 1
        /\ objs' = [objs EXCEPT ![h[v]] = Ext(@, p[1], p[2])]
        /\ last' = [op |-> "setattr", dst |-> v, key |-> p[1], value |-> p[2],
                    before |-> objs[h[v]]]
        /\ UNCHANGED <<registry, h, now, series, drawvars>>

\* dst.x_ticks.append(3.0): a list field changed in place
ListAppend ==
    \E v \in Bound :
        /\ objs[h[v]].x_ticks.t = "list"
        /\ Len(objs[h[v]].x_ticks.items) < MaxItems
        /\ objs' = [objs EXCEPT ![h[v]].x_ticks = List(Append(@.items, IntV(3)))]
        /\ last' = [op |-> "append", dst |-> v, key |-> "x_ticks",
                    before |-> objs[h[v]]]
        /\ UNCHANGED <<registry, h, now, nupd, series, drawvars>>

\* series = SeriesConfig(y=..., x=..., colours), the first statement of a session
ConstructSeries ==
    /\ last.op = "import"
    /\ \E y \in DataSeqs, xopt \in {<<>>} \cup {<<x>> : x \in DataSeqs},
          cs \in SUBSET DOMAIN SeriesColors :
        LET kw == SeriesKw(y, xopt, cs)
            r == SeriesConfigNew(kw) IN
        /\ series' = IF r.ok THEN r.val ELSE series
        /\ last' = [op |-> "SeriesConfig", kwargs |-> kw, ok |-> r.ok,
                    exc |-> Outcome(r), msg |-> IF r.ok THEN <<>> ELSE r.msg]
        /\ UNCHANGED <<objs, registry, h, now, nupd, drawvars>>

\* The life of one configuration object: construction, update, copy, export
\* and import.
\* cfg2 = PlotConfig(**kw) or cfg2 = PlotConfig.from_dict(kw): a second
\* object is built after the first one, from one keyword or none.
ConstructAgain ==
    /\ h["cfg"] # 0
    /\ h["cfg2"] = 0
    /\ \E kw \in KwUpTo(KwPairs, 1), how \in {"construct", "from_dict"} :
        LET r == IF how = "construct" THEN PlotConfigNew(kw, now)
                 ELSE FromDict(kw, now) IN
        /\ Bind("cfg2", r)
        /\ last' = [op |-> "construct_again", how |-> how, kwargs |-> kw,
                    ok |-> r.ok, exc |-> Outcome(r), dst |-> "cfg2"]
        /\ UNCHANGED <<registry, now, nupd, series, drawvars>>

Next ==
    \/ Tick
    \/ Construct
    \/ Update
    \/ Copy
    \/ RoundTripDict
    \/ RoundTripYaml

Spec == Init /\ [][Next]_vars

\* Construction alone.
NextConstruct ==
    \/ Tick
    \/ Construct

SpecConstruct == Init /\ [][NextConstruct]_vars

\* Imports of dicts and files written by hand.
NextImport ==
    \/ Tick
    \/ FromDictCall
    \/ FromYamlCall

SpecImport == Init /\ [][NextImport]_vars

\* Callers of the preset registry.
NextPreset ==
    \/ Tick
    \/ GetPreset
    \/ Update
    \/ Assign
    \/ ListAppend

SpecPreset == Init /\ [][NextPreset]_vars

\* Objects built one after the other.
NextRepeat ==
    \/ Tick
    \/ Construct
    \/ FromDictCall
    \/ ConstructAgain

SpecRepeat == Init /\ [][NextRepeat]_vars

\* Construction of series.
NextSeries == ConstructSeries

SpecSeries == Init /\ [][NextSeries]_vars

(***************************************************************************)
(* Rendering.  A figure is a record of what was drawn on it: its size, its *)
(* axes and the artists of each axes, and whether pyplot still holds it    *)
(* open.  Arguments are passed as tagged values: a SeriesConfig object is  *)
(* Ser(s), a Python list is List(items).                                   *)
(***************************************************************************)
MaxSeries == 3    \* series in one list passed to a rendering function
MaxSaves == 2     \* export calls made on one figure

\* Python's truth value of v (if v: ...).
Truthy(v) ==
    CASE v.t = "None" -> FALSE
      [] v.t = "bool" -> v.b
      [] v.t = "num"  -> v.n # 0
      [] v.t = "str"  -> v # Str("")
      [] v.t \in {"list", "tuple"} -> Len(v.items) > 0
      [] v.t = "dict" -> DOMAIN v.items # {}
      [] OTHER -> TRUE

Ser(s) == [t |-> "SeriesConfig", obj |-> s]

IsList(v) == v.t = "list"

\* SeriesConfig.is_line_plot, is_scatter_plot
IsLinePlot(self) == self.line_style # Str("")
IsScatterPlot(self) == self.marker # Str("")

\* Variant: a series with both a line and markers is reported as a line.
GetPlotTypeLineFirst(self) ==
    IF IsLinePlot(self) THEN "line"
    ELSE IF IsScatterPlot(self) THEN "scatter"
    ELSE "none"

\* SeriesConfig.get_plot_type
GetPlotType(self) ==
    LET has_line == IsLinePlot(self)
        has_marker == IsScatterPlot(self)
    IN  IF has_line /\ has_marker THEN "line+scatter"
        ELSE IF has_line THEN "line"
        ELSE IF has_marker THEN "scatter"
        ELSE "none"

\* Variant: a series without a line is refused, markers or not.
NoLineNoMarkerLineOnly(ser) == ser.line_style = Str("")

\* Variant: a series needs both a line and a marker.
NoLineOrNoMarker(ser) ==
    ser.line_style = Str("") \/ ser.marker = Str("")

\* _plot_series_on_axes: the series has neither a line nor a marker.
NoLineNoMarker(ser) ==
    LET has_line == ser.line_style # Str("")
        has_marker == ser.marker # Str("")
    IN  ~has_line /\ ~has_marker

\* The Line2D that ax.plot(ser.x, ser.y, **plot_kwargs) adds.
Line2D(x, y, color, linestyle, marker, label) ==
    [kind |-> "line", x |-> x, y |-> y, color |-> color,
     linestyle |-> linestyle, marker |-> marker, label |-> label]

\* The polygon that ax.fill_between(x, y1, y2) adds.
FillBetween(x, y1, y2, color, hatch) ==
    [kind |-> "fill", x |-> x, y1 |-> y1, y2 |-> y2, color |-> color,
     hatch |-> hatch]

\* _plot_series_on_axes: the artists drawn for one series, or the error.
\* ax.plot refuses an x that is None.
PlotSeriesOnAxes(ser) ==
    IF NoLineNoMarker(ser)
    THEN RaiseMsg("ValueError", <<"has no line and no marker", ser.label>>)
    ELSE IF ser.x = None
    THEN RaiseMsg("ValueError", <<"x, y, and format string must not be None">>)
    ELSE Return(
           <<Line2D(ser.x.items, ser.y.items, ser.color,
                    ser.line_style, ser.marker,
                    IF Truthy(ser.label) THEN ser.label ELSE None)>>
           \o (IF ser.fill_below.b
               THEN <<FillBetween(ser.x.items, ser.y.items, IntV(0),
                                  ser.fill_color,
                                  IF Truthy(ser.fill_hatch)
                                  THEN ser.fill_hatch ELSE None)>>
               ELSE <<>>))

\* A new axes, and the axes after _apply_global_formatting.
NewAxes == [artists |-> <<>>, formatted |-> FALSE]

ApplyGlobalFormatting(ax, config) ==
    [artists     |-> ax.artists,
     formatted   |-> TRUE,
     title       |-> IF Truthy(config.title) THEN config.title ELSE Str(""),
     title_size  |-> config.title_size,
     x_labelsize |-> config.x_tick_label_size,
     y_labelsize |-> config.y_tick_label_size,
     x_limits    |-> IF Truthy(config.x_limits) THEN config.x_limits ELSE None,
     x_ticks     |-> IF Truthy(config.x_ticks) THEN config.x_ticks ELSE None,
     grid        |-> config.show_grid,
     top_spine   |-> config.show_top_spine,
     right_spine |-> config.show_right_spine]

\* plt.figure / plt.subplots: a figure of n axes, open in pyplot.
NewFigure(config, n) ==
    [open    |-> TRUE,
     figsize |-> <<config.figure_width, config.figure_height>>,
     dpi     |-> config.dpi,
     axes    |-> [i \in 1 .. n |-> NewAxes]]

\* The loop over the series of one subplot: every series is drawn in turn,
\* and the first refusal leaves what was drawn before it.
RECURSIVE PlotGroup(_, _)
PlotGroup(group, ax) ==
    IF group = <<>> THEN [ok |-> TRUE, ax |-> ax]
    ELSE LET r == PlotSeriesOnAxes(Head(group).obj) IN
         IF ~r.ok THEN [ok |-> FALSE, ax |-> ax, exc |-> r.exc, msg |-> r.msg]
         ELSE PlotGroup(Tail(group), [ax EXCEPT !.artists = @ \o r.val])

\* The loop over the subplots, from subplot idx on.
RECURSIVE PlotGroups(_, _, _, _)
PlotGroups(fig, groups, config, idx) ==
    IF idx > Len(groups) THEN [ok |-> TRUE, fig |-> fig]
    ELSE LET r == PlotGroup(groups[idx], fig.axes[idx]) IN
         IF ~r.ok
         THEN [ok |-> FALSE, fig |-> [fig EXCEPT !.axes[idx] = r.ax],
               exc |-> r.exc, msg |-> r.msg]
         ELSE PlotGroups([fig EXCEPT !.axes[idx] =
                              ApplyGlobalFormatting(r.ax, config)],
                         groups, config, idx + 1)

\* Variant: every series of a flat list is a group of its own.
NormalizePerSeries(series_list) ==
    IF ~IsList(series_list) THEN Return(<<<<series_list>>>>)
    ELSE IF Len(series_list.items) = 0
    THEN RaiseMsg("ValueError", <<"series_list cannot be empty">>)
    ELSE IF ~IsList(series_list.items[1])
    THEN Return([i \in 1 .. Len(series_list.items) |->
                   <<series_list.items[i]>>])
    ELSE Return([i \in 1 .. Len(series_list.items) |->
                   series_list.items[i].items])

\* create_line_plot's input handling: one group of series per subplot.
NormalizeSeriesList(series_list) ==
    IF ~IsList(series_list) THEN Return(<<<<series_list>>>>)
    ELSE IF Len(series_list.items) = 0
    THEN RaiseMsg("ValueError", <<"series_list cannot be empty">>)
    ELSE IF ~IsList(series_list.items[1]) THEN Return(<<series_list.items>>)
    ELSE Return([i \in 1 .. Len(series_list.items) |->
                   series_list.items[i].items])

\* The outcome of a rendering call: the figures it created (they stay in
\* pyplot when the call raises after creating them) and what it returned.
Drew(newfigs, ret) ==
    [ok |-> TRUE, exc |-> "", msg |-> <<>>, created |-> newfigs, ret |-> ret]
Failed(newfigs, exc, msg) ==
    [ok |-> FALSE, exc |-> exc, msg |-> msg, created |-> newfigs, ret |-> None]

\* create_line_plot(series_list, config, subplot_layout)
CreateLinePlotOp(series_list, config, subplot_layout) ==
    LET norm == NormalizeSeriesList(series_list)
        rows == subplot_layout[1]
        cols == subplot_layout[2]
        n_subplots == rows * cols
    IN  IF ~norm.ok THEN Failed(<<>>, norm.exc, norm.msg)
        ELSE IF Len(norm.val) # n_subplots
        THEN Failed(<<>>, "ValueError",
                    <<"Number of series groups must match number of subplots",
                      Len(norm.val), n_subplots>>)
        ELSE LET r == PlotGroups(NewFigure(config, n_subplots), norm.val,
                                 config, 1)
             IN  IF ~r.ok THEN Failed(<<r.fig>>, r.exc, r.msg)
                 ELSE Drew(<<r.fig>>,
                           [t |-> "tuple",
                            axes |-> IF rows = 1 /\ cols = 1 THEN "ax"
                                     ELSE "array"])

(***************************************************************************)
(* The caller's series.  A SeriesConfig object holds references to its     *)
(* arrays, which live in the array heap; v's object uses v's slots.        *)
(***************************************************************************)
ArrSlot == [s |-> [x |-> 1, y |-> 2], c |-> [x |-> 3, y |-> 4]]

ArrRef(id) == [t |-> "ndarray", id |-> id]

\* The object with its arrays read from the heap.
Deref(self, heap) ==
    [self EXCEPT !.y = [t |-> "ndarray", items |-> heap[@.id]],
                 !.x = IF @ = None THEN None
                       ELSE [t |-> "ndarray", items |-> heap[@.id]]]

\* The object val (arrays by value) as it is held by variable v.
Held(val, v) ==
    [val EXCEPT !.y = ArrRef(ArrSlot[v].y),
                !.x = IF @ = None THEN None ELSE ArrRef(ArrSlot[v].x)]

\* The array heap after val's arrays were stored in v's slots.
Stored(heap, val, v) ==
    [i \in ArrIds |->
       IF i = ArrSlot[v].y THEN val.y.items
       ELSE IF i = ArrSlot[v].x
       THEN (IF val.x = None THEN Free ELSE val.x.items)
       ELSE heap[i]]

\* The keyword arguments of the series a caller builds.
XData == List(<<IntV(0), IntV(1)>>)
YData == List(<<IntV(1), IntV(2)>>)

StyleKwargs ==
    { [y |-> YData, x |-> XData, label |-> Str("a")],
      [y |-> YData, x |-> XData, line_style |-> Str(""), marker |-> Str("o"),
       label |-> Str("b")],
      [y |-> List(<<IntV(5), IntV(3)>>), x |-> XData, marker |-> Str("o")],
      [y |-> YData, x |-> XData, line_style |-> Str(""), label |-> Str("n")],
      [y |-> YData, x |-> XData, line_style |-> Str("")],
      [y |-> YData, label |-> Str("h"), marker_edgecolor |-> Str("navy"),
       marker_edgewidth |-> IntV(2)],
      [y |-> YData, x |-> XData, hatch |-> Str("///"),
       color |-> Str("#CC0000")],
      [y |-> YData, x |-> XData, fill_below |-> Bool(TRUE),
       fill_color |-> Str("green"), z_order |-> IntV(3)] }

BoundSeries == {v \in SeriesHandles : sobj[v] # NoSeries}

\* The argument a caller passes for handle v.
Arg(v) == Ser(Deref(sobj[v], arrs))

\* The series arguments a caller can build from its variables: one object,
\* a list of objects, a list of lists.
SeriesArgs ==
    LET one == {<<v>> : v \in BoundSeries}
        two == {<<v, w>> : v \in BoundSeries, w \in BoundSeries}
        ListOf(vs) == List([i \in 1 .. Len(vs) |-> Arg(vs[i])])
    IN  {Arg(v) : v \in BoundSeries}
        \cup {ListOf(vs) : vs \in {<<>>} \cup one \cup two}
        \cup {List(<<ListOf(vs)>>) : vs \in {<<>>} \cup one}
        \cup {List(<<ListOf(<<vs[1]>>), ListOf(<<vs[2]>>)>>) : vs \in two}

\* The configurations the rendering functions are called with.
DrawConfigs ==
    {PlotConfigNew(kw, 0).val :
       kw \in {EmptyKw, [title |-> Str("subplot test")]}}

Layouts == {<<1, 1>>, <<1, 2>>}

\* v = SeriesConfig(**kw)
NewSeries ==
    \E v \in SeriesHandles, kw \in StyleKwargs :
        LET r == SeriesConfigNew(kw) IN
        /\ sobj[v] = NoSeries
        /\ v = "c" => sobj["s"] # NoSeries
        /\ figs = <<>>
        /\ last.op \in {"import", "new_series"}
        /\ sobj' = IF r.ok THEN [sobj EXCEPT ![v] = Held(r.val, v)] ELSE sobj
        /\ arrs' = IF r.ok THEN Stored(arrs, r.val, v) ELSE arrs
        /\ last' = [op |-> "new_series", kwargs |-> kw, dst |-> v,
                    ok |-> r.ok, exc |-> Outcome(r)]
        /\ UNCHANGED <<objs, registry, h, now, nupd, series, figs, fs>>

\* fig, ax = create_line_plot(series_list, config, subplot_layout)
CreateLinePlot ==
    /\ figs = <<>>
    /\ last.op \in {"import", "new_series"}
    /\ \E sl \in SeriesArgs, config \in DrawConfigs, layout \in Layouts :
        LET r == CreateLinePlotOp(sl, config, layout) IN
        /\ figs' = figs \o r.created
        /\ last' = [op |-> "create_line_plot", series |-> sl,
                    config |-> config, layout |-> layout, ok |-> r.ok,
                    exc |-> r.exc, msg |-> r.msg, ret |-> r.ret]
        /\ UNCHANGED <<objs, registry, h, now, nupd, series, sobj, arrs, fs>>

\* Python's a or b.
PyOr(a, b) == IF Truthy(a) THEN a ELSE b

\* a + b on numbers.
AddNum(a, b) == Num(a.n * b.d + b.n * a.d, a.d * b.d)

\* Element-wise a + b on arrays of one length.
AddArr(a, b) == [i \in 1 .. Len(a) |-> AddNum(a[i], b[i])]

\* np.zeros_like(a)
ZerosLike(a) == [i \in 1 .. Len(a) |-> IntV(0)]

\* _apply_global_formatting of the histogram and area modules: the title,
\* the tick label sizes and the grid.
ApplyChartFormatting(ax, config) ==
    [artists     |-> ax.artists,
     formatted   |-> TRUE,
     title       |-> IF Truthy(config.title) THEN config.title ELSE Str(""),
     title_size  |-> config.title_size,
     x_labelsize |-> PyOr(config.x_tick_label_size, config.tick_label_size),
     y_labelsize |-> PyOr(config.y_tick_label_size, config.tick_label_size),
     grid        |-> config.show_grid,
     top_spine   |-> config.show_top_spine,
     right_spine |-> config.show_right_spine]

\* A figure of one axes holding artists, formatted with format.
ChartFigure(config, artists) ==
    [NewFigure(config, 1) EXCEPT
       !.axes[1] = ApplyChartFormatting([NewAxes EXCEPT !.artists = artists],
                                        config)]

\* "if not isinstance(series, list): series = [series]"
AsSeriesList(arg) == IF ~IsList(arg) THEN <<arg>> ELSE arg.items

\* The orientation create_histogram passes on to ax.hist.
HistOrientation(orientation) ==
    IF orientation = "vertical" THEN "vertical" ELSE "horizontal"

\* Variant: the first series' edge colour and width are used for all.
HistEdgeFirst(sl) ==
    [edgecolor |-> PyOr(sl[1].obj.marker_edgecolor, Str("black")),
     linewidth |-> PyOr(sl[1].obj.marker_edgewidth, IntV(0))]

\* The edgecolor and linewidth create_histogram passes to ax.hist:
\* "edgecolors[0] if len(edgecolors) == 1 else 'black'" and
\* "linewidths[0] if len(linewidths) == 1 else 0.5".
HistEdge(sl) ==
    LET edgecolors == [i \in 1 .. Len(sl) |->
                         PyOr(sl[i].obj.marker_edgecolor, Str("black"))]
        linewidths == [i \in 1 .. Len(sl) |->
                         PyOr(sl[i].obj.marker_edgewidth, IntV(0))]
    IN  [edgecolor |-> IF Len(edgecolors) = 1 THEN edgecolors[1]
                       ELSE Str("black"),
         linewidth |-> IF Len(linewidths) = 1 THEN linewidths[1]
                       ELSE Num(1, 2)]

\* create_histogram(series, config, orientation=...)
CreateHistogramOp(arg, config, orientation) ==
    LET sl == AsSeriesList(arg) IN
    IF sl = <<>>
    THEN Failed(<<>>, "ValueError", <<"Must provide at least one series">>)
    ELSE Drew(<<ChartFigure(config,
                  <<[kind        |-> "hist",
                     data        |-> [i \in 1 .. Len(sl) |-> sl[i].obj.y.items],
                     colors      |-> [i \in 1 .. Len(sl) |-> sl[i].obj.color],
                     hatches     |-> [i \in 1 .. Len(sl) |->
                                        IF Truthy(sl[i].obj.hatch)
                                        THEN sl[i].obj.hatch ELSE None],
                     edgecolor   |-> HistEdge(sl).edgecolor,
                     linewidth   |-> HistEdge(sl).linewidth,
                     orientation |-> HistOrientation(orientation)]>>)>>,
              [t |-> "tuple", axes |-> "ax"])

\* Variant: the line of every series is drawn at the series' own values.
CumSumOwn(ys, i) == ys[i]

\* The value of cumsum after the loop of _create_stacked_areas has added
\* the first i series.
RECURSIVE CumSum(_, _)
CumSum(ys, i) ==
    IF i = 0 THEN ZerosLike(ys[1]) ELSE AddArr(CumSum(ys, i - 1), ys[i])

\* np.cumsum(y, axis=0)[i] as ax.stackplot computes it.
RECURSIVE StackOf(_, _)
StackOf(ys, i) == IF i = 1 THEN ys[1] ELSE AddArr(StackOf(ys, i - 1), ys[i])

\* _create_stacked_areas: the polygons of ax.stackplot, then one line per
\* series when show_line is set.
CreateStackedAreas(sl, show_line) ==
    LET x == sl[1].obj.x.items
        y_data == [i \in 1 .. Len(sl) |-> sl[i].obj.y.items]
        polys == [i \in 1 .. Len(sl) |->
                    FillBetween(x,
                                IF i = 1 THEN ZerosLike(y_data[1])
                                ELSE StackOf(y_data, i - 1),
                                StackOf(y_data, i), sl[i].obj.color,
                                IF Truthy(sl[i].obj.hatch)
                                THEN sl[i].obj.hatch ELSE None)]
        lines == [i \in 1 .. Len(sl) |->
                    Line2D(sl[i].obj.x.items, CumSum(y_data, i),
                           sl[i].obj.color,
                           PyOr(sl[i].obj.line_style, Str("-")),
                           Str(""), None)]
    IN  polys \o (IF show_line THEN lines ELSE <<>>)

\* _create_single_areas: a fill and, unless the series has no line style,
\* a line per series.  (line_style falls back to '-', so the line is
\* always drawn when show_line is set.)
CreateSingleAreas(sl, baseline, show_line) ==
    LET label(i) == IF Truthy(sl[i].obj.label) THEN sl[i].obj.label ELSE None
        Area(i) ==
          <<FillBetween(sl[i].obj.x.items, baseline, sl[i].obj.y.items,
                        PyOr(sl[i].obj.color, Str("#0066CC")),
                        IF Truthy(sl[i].obj.hatch) THEN sl[i].obj.hatch
                        ELSE None)>>
          \o (IF show_line
              THEN <<Line2D(sl[i].obj.x.items, sl[i].obj.y.items,
                            PyOr(sl[i].obj.color, Str("#0066CC")),
                            PyOr(sl[i].obj.line_style, Str("-")),
                            Str(""), label(i))>>
              ELSE <<>>)
        RECURSIVE Upto(_)
        Upto(i) == IF i = 0 THEN <<>> ELSE Upto(i - 1) \o Area(i)
    IN  Upto(Len(sl))

\* _create_fill_between: the fill between the two curves and their lines.
CreateFillBetween(sl, show_line) ==
    <<FillBetween(sl[1].obj.x.items, sl[1].obj.y.items, sl[2].obj.y.items,
                  PyOr(sl[1].obj.color, Str("#0066CC")),
                  IF Truthy(sl[1].obj.hatch) THEN sl[1].obj.hatch ELSE None)>>
    \o (IF show_line
        THEN [i \in 1 .. 2 |->
                Line2D(sl[i].obj.x.items, sl[i].obj.y.items, sl[i].obj.color,
                       PyOr(sl[i].obj.line_style, Str("-")), Str(""),
                       sl[i].obj.label)]
        ELSE <<>>)

\* Variant: fill_between accepts two series or more.
FillBetweenRefusedBelowTwo(sl, fill_between) == fill_between /\ Len(sl) < 2

\* "if fill_between and len(series) != 2"
FillBetweenRefused(sl, fill_between) == fill_between /\ Len(sl) # 2

\* create_area_plot(series, config, stacked, fill_between, show_line)
CreateAreaPlotOp(arg, config, stacked, fill_between, show_line) ==
    LET sl == AsSeriesList(arg) IN
    IF sl = <<>>
    THEN Failed(<<>>, "ValueError", <<"Must provide at least one series">>)
    ELSE IF FillBetweenRefused(sl, fill_between)
    THEN Failed(<<>>, "ValueError", <<"fill_between requires exactly 2 series">>)
    ELSE Drew(<<ChartFigure(config,
                  IF fill_between THEN CreateFillBetween(sl, show_line)
                  ELSE IF stacked THEN CreateStackedAreas(sl, show_line)
                  ELSE CreateSingleAreas(sl, IntV(0), show_line))>>,
              [t |-> "tuple", axes |-> "ax"])

\* The arrays of the caller after create_area_plot.  The one array the
\* area module assigns to is the running total of _create_stacked_areas:
\* np.zeros_like gives the name cumsum a new array, and
\* "cumsum = cumsum + s.y" binds it to a new array again, so the cell
\* written is never one of the arrays passed in (ids are the y arrays of
\* the series, in order).
Scratch == 0

\* Variant: cumsum starts as the first series' own array and is added to in
\* place (cumsum = y_data[0]; cumsum += s.y).
CumsumCellAliased(ids) == ids[1]

CumsumCell(ids) == Scratch

RECURSIVE CumsumLoop(_, _, _)
CumsumLoop(heap, ids, i) ==
    IF i > Len(ids) THEN heap
    ELSE CumsumLoop([heap EXCEPT ![CumsumCell(ids)] = AddArr(@, heap[ids[i]])],
                    ids, i + 1)

AreaPlotArrays(heap, ids, stacked, fill_between, show_line) ==
    IF ids = <<>> \/ fill_between \/ ~stacked \/ ~show_line THEN heap
    ELSE LET local == [i \in ArrIds \cup {Scratch} |->
                         IF i = CumsumCell(ids) THEN ZerosLike(heap[ids[1]])
                         ELSE IF i = Scratch THEN <<>> ELSE heap[i]]
             after == CumsumLoop(local, ids, 1)
         IN  [i \in ArrIds |-> after[i]]

\* create_box_plot(data, labels, config, orientation=...): the orientation
\* is validated before the figure is created.
CreateBoxPlotOp(data, labels, config, orientation) ==
    IF orientation \notin {"vertical", "horizontal"}
    THEN Failed(<<>>, "ValueError",
                <<"orientation must be 'vertical' or 'horizontal'">>)
    ELSE Drew(<<ChartFigure(config,
                  <<[kind |-> "box", data |-> data, labels |-> labels,
                     vert |-> (orientation = "vertical"),
                     orientation |-> orientation]>>)>>,
              [t |-> "tuple", axes |-> "ax"])

\* The plot types of the two surface modules.
SurfaceTypes ==
    [extras       |-> {"surface", "wireframe", "both"},
     experimental |-> {"surface", "wireframe", "contour3d"}]

\* create_surface_plot(X, Y, Z, config, plot_type=...) of extras/
\* surface_plotter.py and experimental/surface3d_plotter.py: the shapes,
\* then the plot type, are validated before the figure is created.
CreateSurfacePlotOp(module, same_shape, config, plot_type) ==
    IF ~same_shape
    THEN Failed(<<>>, "ValueError", <<"X, Y, and Z must have the same shape">>)
    ELSE IF plot_type \notin SurfaceTypes[module]
    THEN Failed(<<>>, "ValueError", <<"plot_type must be one of", module>>)
    ELSE Drew(<<ChartFigure(config,
                  IF module = "extras" /\ plot_type = "both"
                  THEN <<[kind |-> "surface", plot_type |-> plot_type],
                         [kind |-> "wireframe", plot_type |-> plot_type]>>
                  ELSE <<[kind |-> plot_type, plot_type |-> plot_type]>>)>>,
              [t |-> "tuple", axes |-> "ax"])

\* create_heatmap(data, config): data must be a two-dimensional array (an
\* array is its shape and its items, row by row); the figure holds the
\* image of the data.
CreateHeatmapOp(data, config) ==
    IF data.t # "ndarray" \/ Len(data.shape) # 2
    THEN Failed(<<>>, "ValueError", <<"data must be a 2D numpy array">>)
    ELSE Drew(<<ChartFigure(config, <<[kind |-> "image", data |-> data.items]>>)>>,
              [t |-> "tuple", axes |-> "ax"])

\* len(v) of an argument that is a list.
PyLen(v) == Len(v.items)

\* ax.pie(values, explode=explode): matplotlib refuses an explode list
\* whose length is not the number of values.
PieRefusesExplode(values, explode) ==
    explode # None /\ PyLen(explode) # PyLen(values)

\* The wedges after the loops over zip(wedges, edge_colors) and
\* zip(wedges, hatches): zip stops at the shorter of the two.
PieWedges(values, hatches, edge_colors) ==
    [i \in 1 .. PyLen(values) |->
       [kind      |-> "wedge",
        value     |-> values.items[i],
        edgecolor |-> IF Truthy(edge_colors) /\ PyLen(edge_colors) = 1
                      THEN edge_colors.items[1]
                      ELSE IF Truthy(edge_colors) /\ PyLen(edge_colors) > 1
                              /\ i <= PyLen(edge_colors)
                      THEN edge_colors.items[i]
                      ELSE Str("white"),
        hatch     |-> IF Truthy(hatches) /\ i <= PyLen(hatches)
                         /\ Truthy(hatches.items[i])
                      THEN hatches.items[i] ELSE None]]

\* The figure of a pie chart: the title is the only formatting.
PieFigure(config, artists) ==
    [NewFigure(config, 1) EXCEPT
       !.axes[1] = [artists   |-> artists,
                    formatted |-> TRUE,
                    title     |-> IF Truthy(config.title) THEN config.title
                                  ELSE Str(""),
                    title_size |-> config.title_size]]

\* create_pie_chart(labels, values, colors, config, explode, hatches,
\* edge_colors)
CreatePieChartOp(labels, values, config, explode, hatches, edge_colors) ==
    IF PyLen(labels) # PyLen(values)
    THEN Failed(<<>>, "ValueError",
                <<"labels and values must have same length">>)
    ELSE IF PieRefusesExplode(values, explode)
    THEN Failed(<<NewFigure(config, 1)>>, "ValueError",
                <<"'explode' must be of length 'x'">>)
    ELSE Drew(<<PieFigure(config, PieWedges(values, hatches, edge_colors))>>,
              [t |-> "tuple", axes |-> "ax"])

MaxSlices == 2    \* length of the lists passed to create_pie_chart

\* The caller's variables whose series has x data.
WithX == {v \in BoundSeries : sobj[v].x # None}

\* The lists of at most n objects taken from the variables in vs.
RECURSIVE ListsOver(_, _)
ListsOver(vs, n) ==
    IF n = 0 THEN {<<>>}
    ELSE LET shorter == ListsOver(vs, n - 1) IN
         shorter \cup {Append(l, v) : l \in shorter, v \in vs}

\* One object, or a list of at most n objects, for the variables in vs.
FlatArgs(vs, n) ==
    {Arg(v) : v \in vs}
    \cup {List([i \in 1 .. Len(l) |-> Arg(l[i])]) : l \in ListsOver(vs, n)}

OrientationStrings == {"vertical", "horizontal", "diagonal", "Vertical"}

PlotTypeStrings == {"surface", "wireframe", "both", "contour3d", "mesh"}

\* A list of k items, and the optional list arguments of create_pie_chart.
Repeat(item, k) == List([i \in 1 .. k |-> item])

OptList(item) == {None} \cup {Repeat(item, k) : k \in 1 .. MaxSlices}

\* No rendering call was made yet.
NothingDrawn == figs = <<>> /\ last.op \in {"import", "new_series"}

\* kind = v.get_plot_type()
GetPlotTypeCall ==
    \E v \in BoundSeries :
        /\ NothingDrawn
        /\ last' = [op |-> "get_plot_type", src |-> v,
                    ret |-> GetPlotType(Deref(sobj[v], arrs))]
        /\ UNCHANGED <<objs, registry, h, now, nupd, series, drawvars>>

\* fig, ax = create_histogram(series, config, orientation=orientation)
CreateHistogram ==
    /\ NothingDrawn
    /\ \E arg \in FlatArgs(BoundSeries, 2), config \in DrawConfigs,
          orientation \in OrientationStrings :
        LET r == CreateHistogramOp(arg, config, orientation) IN
        /\ figs' = figs \o r.created
        /\ last' = [op |-> "create_histogram", series |-> arg,
                    config |-> config, orientation |-> orientation,
                    ok |-> r.ok, exc |-> r.exc, msg |-> r.msg, ret |-> r.ret]
        /\ UNCHANGED <<objs, registry, h, now, nupd, series, sobj, arrs, fs>>

\* fig, ax = create_area_plot(series, config, stacked, fill_between,
\*                            show_line=show_line)
\* The caller passes one of its objects, or a list l of them.
CreateAreaPlot ==
    /\ NothingDrawn
    /\ \E l \in ListsOver(WithX, MaxSeries), single \in BOOLEAN,
          config \in DrawConfigs,
          stacked \in BOOLEAN, fill_between \in BOOLEAN, show_line \in BOOLEAN :
        LET arg == IF single THEN Arg(l[1])
                   ELSE List([i \in 1 .. Len(l) |-> Arg(l[i])])
            r == CreateAreaPlotOp(arg, config, stacked, fill_between, show_line)
        IN
        /\ single => Len(l) = 1
        /\ figs' = figs \o r.created
        /\ arrs' = AreaPlotArrays(arrs, [i \in 1 .. Len(l) |-> sobj[l[i]].y.id],
                                  stacked, fill_between, show_line)
        /\ last' = [op |-> "create_area_plot", series |-> arg,
                    config |-> config, stacked |-> stacked,
                    fill_between |-> fill_between, show_line |-> show_line,
                    ok |-> r.ok, exc |-> r.exc, msg |-> r.msg, ret |-> r.ret]
        /\ UNCHANGED <<objs, registry, h, now, nupd, series, sobj, fs>>

\* fig, ax = create_box_plot(data, labels, config, orientation=orientation)
CreateBoxPlot ==
    /\ last.op = "import"
    /\ \E config \in DrawConfigs, orientation \in OrientationStrings :
        LET r == CreateBoxPlotOp(List(<<YData, XData>>),
                                 List(<<Str("A"), Str("B")>>), config,
                                 orientation) IN
        /\ figs' = figs \o r.created
        /\ last' = [op |-> "create_box_plot", config |-> config,
                    orientation |-> orientation,
                    ok |-> r.ok, exc |-> r.exc, msg |-> r.msg, ret |-> r.ret]
        /\ UNCHANGED <<objs, registry, h, now, nupd, series, sobj, arrs, fs>>

\* fig, ax = create_surface_plot(X, Y, Z, config, plot_type=plot_type), of
\* either module
CreateSurfacePlot ==
    /\ last.op = "import"
    /\ \E module \in DOMAIN SurfaceTypes, same_shape \in BOOLEAN,
          config \in DrawConfigs, plot_type \in PlotTypeStrings :
        LET r == CreateSurfacePlotOp(module, same_shape, config, plot_type) IN
        /\ figs' = figs \o r.created
        /\ last' = [op |-> "create_surface_plot", module |-> module,
                    same_shape |-> same_shape, config |-> config,
                    plot_type |-> plot_type,
                    ok |-> r.ok, exc |-> r.exc, msg |-> r.msg, ret |-> r.ret]
        /\ UNCHANGED <<objs, registry, h, now, nupd, series, sobj, arrs, fs>>

\* fig, ax = create_pie_chart(labels, values, None, config, explode, hatches,
\*                            edge_colors)
CreatePieChart ==
    /\ last.op = "import"
    /\ \E n \in 1 .. MaxSlices, nl \in 0 .. MaxSlices, config \in DrawConfigs,
          explode \in OptList(Num(1, 10)), hatches \in OptList(Str("///")),
          edge_colors \in OptList(Str("black")) :
        LET labels == Repeat(Str("Hydro"), nl)
            values == Repeat(IntV(2500), n)
            r == CreatePieChartOp(labels, values, config, explode, hatches,
                                  edge_colors) IN
        /\ figs' = figs \o r.created
        /\ last' = [op |-> "create_pie_chart", labels |-> labels,
                    values |-> values, config |-> config, explode |-> explode,
                    hatches |-> hatches, edge_colors |-> edge_colors,
                    ok |-> r.ok, exc |-> r.exc, msg |-> r.msg, ret |-> r.ret]
        /\ UNCHANGED <<objs, registry, h, now, nupd, series, sobj, arrs, fs>>

\* fig, ax = create_heatmap(data, config)
CreateHeatmap ==
    /\ last.op = "import"
    /\ \E config \in DrawConfigs,
          data \in { [t |-> "ndarray", shape |-> <<2, 2>>,
                      items |-> <<IntV(1), IntV(2), IntV(3), IntV(4)>>],
                     [t |-> "ndarray", shape |-> <<2>>,
                      items |-> <<IntV(1), IntV(2)>>],
                     List(<<List(<<IntV(1)>>)>>) } :
        LET r == CreateHeatmapOp(data, config) IN
        /\ figs' = figs \o r.created
        /\ last' = [op |-> "create_heatmap", data |-> data, config |-> config,
                    ok |-> r.ok, exc |-> r.exc, msg |-> r.msg, ret |-> r.ret]
        /\ UNCHANGED <<objs, registry, h, now, nupd, series, sobj, arrs, fs>>

(***************************************************************************)
(* core/subplot_plotter.py: grids of subplots.                             *)
(***************************************************************************)
MaxFigures == 2   \* figures open before a further create_subplots call

\* The shape of an axes result: <<>> is a single Axes object, <<n>> a 1-D
\* array of n axes, <<r, c>> a 2-D array.
\* plt.subplots(nrows, ncols) squeezes the dimensions of size one.
Squeeze(nrows, ncols) ==
    IF nrows = 1 /\ ncols = 1 THEN <<>>
    ELSE IF nrows = 1 THEN <<ncols>>
    ELSE IF ncols = 1 THEN <<nrows>>
    ELSE <<nrows, ncols>>

\* np.array(axes) of the list of rows built on the GridSpec path.
ArrayOfRows(nrows, ncols) == <<nrows, ncols>>

\* GridSpec refuses ratios whose number is not the number of columns /
\* rows of the grid.
GridSpecRefuses(nrows, ncols, width_ratios, height_ratios) ==
    \/ width_ratios # None /\ PyLen(width_ratios) # ncols
    \/ height_ratios # None /\ PyLen(height_ratios) # nrows

\* "for ax, title in zip(axes_flat, subplot_titles)": the axes in row-major
\* order, titled as far as the titles go.
TitledAxes(n, subplot_titles) ==
    [i \in 1 .. n |->
       IF Truthy(subplot_titles) /\ i <= PyLen(subplot_titles)
       THEN [artists |-> <<>>, formatted |-> FALSE,
             title |-> subplot_titles.items[i]]
       ELSE NewAxes]

\* The figure with its subplots, its overall title and the layout applied.
SubplotFigure(config, n, subplot_titles, figure_title) ==
    [open     |-> TRUE,
     figsize  |-> <<config.figure_width, config.figure_height>>,
     dpi      |-> config.dpi,
     axes     |-> TitledAxes(n, subplot_titles),
     suptitle |-> IF Truthy(figure_title) \/ Truthy(config.title)
                  THEN PyOr(figure_title, config.title) ELSE None]

\* create_subplots(nrows, ncols, config, subplot_titles=..., figure_title=...,
\* width_ratios=..., height_ratios=...).  plt.figure opens a figure first;
\* with ratios the axes are added to it, without them plt.subplots opens a
\* second figure, which is the one returned.  ret.fig is the position of the
\* returned figure among the figures created.
CreateSubplotsOp(nrows, ncols, config, subplot_titles, figure_title, width_ratios, height_ratios) ==
    LET fig == NewFigure(config, 0) IN
    IF nrows < 1 \/ ncols < 1
    THEN Failed(<<>>, "ValueError", <<"nrows and ncols must be >= 1">>)
    ELSE IF Truthy(width_ratios) \/ Truthy(height_ratios)
    THEN IF GridSpecRefuses(nrows, ncols, width_ratios, height_ratios)
         THEN Failed(<<fig>>, "ValueError",
                     <<"Expected the given number of ratios to match the grid">>)
         ELSE Drew(<<SubplotFigure(config, nrows * ncols, subplot_titles,
                                   figure_title)>>,
                   [t |-> "tuple", fig |-> 1,
                    axes |-> ArrayOfRows(nrows, ncols)])
    ELSE Drew(<<fig, SubplotFigure(config, nrows * ncols, subplot_titles,
                                   figure_title)>>,
              [t |-> "tuple", fig |-> 2, axes |-> Squeeze(nrows, ncols)])

\* The arguments a caller passes to create_subplots.
GridSizes == 0 .. 2
RatioArgs == {None, List(<<IntV(1)>>), List(<<IntV(1), IntV(2)>>)}
TitleArgs == {None, List(<<Str("a"), Str("b")>>)}

\* fig, axes = create_subplots(nrows, ncols, config, subplot_titles=...,
\*                             width_ratios=..., height_ratios=...)
\* A caller calls again only after a call that opened a figure: a refused
\* call leaves everything as it was.
CreateSubplots ==
    /\ \/ last.op = "import"
       \/ last.op = "create_subplots" /\ Len(figs) > last.before
    /\ Len(figs) < MaxFigures
    /\ \E nrows \in GridSizes, ncols \in GridSizes, config \in DrawConfigs,
          subplot_titles \in TitleArgs, width_ratios \in RatioArgs,
          height_ratios \in RatioArgs \ {List(<<IntV(1), IntV(2)>>)} :
        LET r == CreateSubplotsOp(nrows, ncols, config, subplot_titles, None,
                                  width_ratios, height_ratios) IN
        /\ figs' = figs \o r.created
        /\ last' = [op |-> "create_subplots", nrows |-> nrows, ncols |-> ncols,
                    config |-> config, subplot_titles |-> subplot_titles,
                    width_ratios |-> width_ratios,
                    height_ratios |-> height_ratios,
                    ok |-> r.ok, exc |-> r.exc, msg |-> r.msg,
                    ret |-> IF r.ok
                            THEN [r.ret EXCEPT !.fig = Len(figs) + @]
                            ELSE r.ret,
                    before |-> Len(figs)]
        /\ UNCHANGED <<objs, registry, h, now, nupd, series, sobj, arrs, fs>>

\* The attributes apply_subplot_formatting reads from config, in the order
\* it reads them ("a or b" reads b only when a is falsy).
SubplotFormattingReads(config, hide_xlabel, hide_ylabel) ==
    LET Label(axis) ==
          IF Truthy(config[axis \o "_label"])
          THEN <<axis \o "_label", axis \o "_axis_label_size">>
               \o (IF Truthy(config[axis \o "_axis_label_size"]) THEN <<>>
                   ELSE <<"axis_label_size">>)
               \o <<"axis_label_family", "axis_label_weight",
                    "axis_label_style", "axis_label_color">>
          ELSE <<>>
        TickSize(axis) ==
          <<axis \o "_tick_label_size">>
          \o (IF Truthy(config[axis \o "_tick_label_size"]) THEN <<>>
              ELSE <<"tick_label_size">>)
    IN  (IF hide_xlabel THEN <<>> ELSE <<"x_label">> \o Label("x"))
        \o (IF hide_ylabel THEN <<>> ELSE <<"y_label">> \o Label("y"))
        \o TickSize("x") \o TickSize("y")
        \o <<"tick_label_family", "tick_label_weight", "tick_label_color">>
        \o <<"show_grid">>
        \o (IF Truthy(config.show_grid)
            THEN <<"grid_alpha", "grid_style", "grid_linewidth", "grid_color">>
            ELSE <<>>)
        \o <<"show_top_spine", "show_right_spine", "show_left_spine",
             "show_bottom_spine", "show_legend">>
        \o (IF Truthy(config.show_legend)
            THEN <<"legend_location", "legend_fontsize", "legend_frameon",
                   "legend_framealpha", "legend_edgecolor">>
            ELSE <<>>)

\* apply_subplot_formatting(ax, config, hide_xlabel, hide_ylabel): reading
\* an attribute the object does not have raises AttributeError; the labels,
\* ticks, grid and spines are set before the legend is reached.
ApplySubplotFormattingOp(ax, config, hide_xlabel, hide_ylabel) ==
    LET reads == SubplotFormattingReads(config, hide_xlabel, hide_ylabel)
        missing == {i \in 1 .. Len(reads) : ~HasAttr(config, reads[i])}
        done == [formatted |-> TRUE,
                 xlabel |-> IF hide_xlabel THEN Str("") ELSE config.x_label,
                 ylabel |-> IF hide_ylabel THEN Str("") ELSE config.y_label,
                 grid   |-> config.show_grid]
    IN  IF missing # {}
        THEN [ok |-> FALSE, exc |-> "AttributeError",
              msg |-> <<reads[CHOOSE i \in missing : \A j \in missing : i <= j]>>,
              ax |-> ([legend |-> FALSE] @@ done) @@ ax]
        ELSE [ok |-> TRUE, exc |-> "", msg |-> <<>>,
              ax |-> ([legend |-> Truthy(config.show_legend)] @@ done) @@ ax]

\* The configurations apply_subplot_formatting is called with: the default
\* one, two with keyword arguments, and every preset.
FormatConfigs ==
    {PlotConfigNew(kw, 0).val :
       kw \in {EmptyKw, [show_legend |-> Bool(FALSE)],
               [x_label |-> Str("Time (s)"), show_grid |-> Bool(FALSE)]}}
    \cup {PRESET_CONFIGS[i] : i \in 1 .. NPresets}

\* apply_subplot_formatting(axes[...], config, hide_xlabel, hide_ylabel) on
\* a subplot of the figure just returned
ApplySubplotFormatting ==
    /\ last.op = "create_subplots"
    /\ last.ok
    /\ \E i \in 1 .. Len(figs[last.ret.fig].axes), config \in FormatConfigs,
          hide_xlabel \in BOOLEAN, hide_ylabel \in BOOLEAN :
        LET r == ApplySubplotFormattingOp(figs[last.ret.fig].axes[i], config,
                                          hide_xlabel, hide_ylabel) IN
        /\ figs' = [figs EXCEPT ![last.ret.fig].axes[i] = r.ax]
        /\ last' = [op |-> "apply_subplot_formatting", fig |-> last.ret.fig,
                    ax |-> i, config |-> config, hide_xlabel |-> hide_xlabel,
                    hide_ylabel |-> hide_ylabel,
                    ok |-> r.ok, exc |-> r.exc, msg |-> r.msg]
        /\ UNCHANGED <<objs, registry, h, now, nupd, series, sobj, arrs, fs>>

\* Grids of subplots and their formatting.
NextSubplots ==
    \/ CreateSubplots
    \/ ApplySubplotFormatting

SpecSubplots == Init /\ [][NextSubplots]_vars

\* Rendering: the series are built, then one rendering function is called.
NextRender ==
    \/ NewSeries
    \/ GetPlotTypeCall
    \/ CreateLinePlot
    \/ CreateHistogram
    \/ CreateAreaPlot
    \/ CreateBoxPlot
    \/ CreateSurfacePlot
    \/ CreatePieChart
    \/ CreateHeatmap
    \/ CreateSubplots

SpecRender == Init /\ [][NextRender]_vars

(***************************************************************************)
(* SeriesConfig.copy and the changes a caller makes to a series.           *)
(***************************************************************************)
\* The keyword arguments copy() passes to the constructor: every field but
\* hatch.
CopiedFields == SeriesFields \ {"hatch"}

\* Variant: the new object refers to the arrays of the old one.
SeriesCopyShallow(self, heap, dst) ==
    [ok |-> TRUE, exc |-> "", obj |-> self, heap |-> heap]

\* self.copy(), the result to be held by variable dst: self.x.copy() fails
\* when x is None; otherwise the constructor builds a new object from
\* copies of the arrays.
SeriesCopyOp(self, heap, dst) ==
    IF self.x = None
    THEN [ok |-> FALSE, exc |-> "AttributeError", obj |-> NoSeries, heap |-> heap]
    ELSE LET val == Deref(self, heap)
             kwargs == [f \in CopiedFields |->
                          IF f \in {"x", "y"}
                          THEN [t |-> "ndarray", items |-> val[f].items]
                          ELSE val[f]]
             r == SeriesConfigNew(kwargs)
         IN  IF ~r.ok
             THEN [ok |-> FALSE, exc |-> r.exc, obj |-> NoSeries, heap |-> heap]
             ELSE [ok |-> TRUE, exc |-> "", obj |-> Held(r.val, dst),
                   heap |-> Stored(heap, r.val, dst)]

\* c = s.copy()
SeriesCopy ==
    LET r == SeriesCopyOp(sobj["s"], arrs, "c") IN
    /\ sobj["s"] # NoSeries
    /\ last.op \in {"new_series", "setitem", "setfield"}
    /\ sobj' = IF r.ok THEN [sobj EXCEPT !["c"] = r.obj] ELSE sobj
    /\ arrs' = r.heap
    /\ last' = [op |-> "series_copy", src |-> "s", dst |-> "c", ok |-> r.ok,
                exc |-> r.exc]
    /\ UNCHANGED <<objs, registry, h, now, nupd, series, figs, fs>>

\* The data arrays a series has.
DataOf(v) == {f \in {"x", "y"} : sobj[v][f] # None}

\* v.x[0] = 9 or v.y[0] = 9: an array changed in place
SetItem ==
    \E v \in BoundSeries :
        \E f \in DataOf(v) :
            /\ nupd < MaxUpdates
            /\ Len(arrs[sobj[v][f].id]) > 0
            /\ nupd' = nupd + 1
            /\ arrs' = [arrs EXCEPT ![sobj[v][f].id][1] = IntV(9)]
            /\ last' = [op |-> "setitem", dst |-> v, key |-> f,
                        prev |-> last.op]
            /\ UNCHANGED <<objs, registry, h, now, series, sobj, figs, fs>>

\* The fields a caller assigns and the values given.
FieldValues ==
    { <<"color", Str("red")>>, <<"hatch", Str("xx")>>,
      <<"marker_facecolor", None>>, <<"label", Str("changed")>> }

\* v.key = value
SetField ==
    \E v \in BoundSeries, p \in FieldValues :
        /\ nupd < MaxUpdates
        /\ nupd' = nupd + 1
        /\ sobj' = [sobj EXCEPT ![v][p[1]] = p[2]]
        /\ last' = [op |-> "setfield", dst |-> v, key |-> p[1],
                    prev |-> last.op]
        /\ UNCHANGED <<objs, registry, h, now, series, arrs, figs, fs>>

\* The life of a series: construction, changes and copy.
NextSeriesCopy ==
    \/ NewSeries
    \/ SeriesCopy
    \/ SetItem
    \/ SetField

SpecSeriesCopy == Init /\ [][NextSeriesCopy]_vars

(***************************************************************************)
(* Export.  A path is the sequence of its components; the file system      *)
(* holds the directories that exist and the content of every file.         *)
(***************************************************************************)
\* The output paths a caller passes, relative to the working directory.
PathArgs ==
    {<<"out.png">>, <<"plots", "out.png">>, <<"plots", "run", "out.png">>}

\* Path(filepath).expanduser().resolve() of a relative path.
Resolve(filepath) == Cwd \o filepath

Parent(path) == SubSeq(path, 1, Len(path) - 1)

\* dir.mkdir(parents=True, exist_ok=True)
MkdirParents(dirs, dir) ==
    dirs \cup {SubSeq(dir, 1, k) : k \in 0 .. Len(dir)}

\* The PNG image fig.savefig writes: the signature and the chunks.
PngOf(fig, dpi) ==
    <<"PNG", [chunk |-> "IHDR", figsize |-> fig.figsize, dpi |-> dpi],
      [chunk |-> "IDAT", axes |-> fig.axes], "IEND">>

\* fig.savefig(path, dpi=dpi): the file is written when its directory
\* exists.
Savefig(fsys, fig, path, dpi) ==
    IF Parent(path) \notin fsys.dirs
    THEN [ok |-> FALSE, exc |-> "FileNotFoundError", fs |-> fsys]
    ELSE [ok |-> TRUE, exc |-> "",
          fs |-> [fsys EXCEPT
                    !.files = [p \in DOMAIN fsys.files \cup {path} |->
                                 IF p = path THEN PngOf(fig, dpi)
                                 ELSE fsys.files[p]]]]

\* plt.close(fig)
Close(fig) == [fig EXCEPT !.open = FALSE]

\* utils.save_plot(fig, filepath, dpi=dpi)
SavePlotOp(fsys, fig, filepath, dpi) ==
    LET path == Resolve(filepath)
        made == [fsys EXCEPT !.dirs = MkdirParents(@, Parent(path))]
        r == Savefig(made, fig, path, dpi)
    IN  [ok |-> r.ok, exc |-> r.exc, fs |-> r.fs, fig |-> fig,
         ret |-> IF r.ok THEN [t |-> "Path", path |-> path] ELSE None]

\* line_plotter.save_plot(fig, filepath, dpi): fig.savefig and nothing else.
LineSavePlotOp(fsys, fig, filepath, dpi) ==
    LET r == Savefig(fsys, fig, Resolve(filepath), PyOr(dpi, fig.dpi)) IN
    [ok |-> r.ok, exc |-> r.exc, fs |-> r.fs, fig |-> fig, ret |-> None]

\* histogram_plotter.save_plot(fig, filename, dpi), and the same function of
\* the subplot, area, box, contour, heatmap, pie and surface modules:
\* fig.savefig, then plt.close(fig).
HistogramSavePlotOp(fsys, fig, filename, dpi) ==
    LET r == Savefig(fsys, fig, Resolve(filename), dpi) IN
    [ok |-> r.ok, exc |-> r.exc, fs |-> r.fs,
     fig |-> IF r.ok THEN Close(fig) ELSE fig, ret |-> None]

\* The dpi the tests export with.
SaveDpi == IntV(150)

\* The x data of n points.
Indices(n) == List([i \in 1 .. n |-> IntV(i - 1)])

\* test_line_plot_smoke up to the call of create_line_plot, the series
\* list given in any of its three forms.
LinePlotSmoke ==
    /\ last.op = "import"
    /\ \E y \in DataSeqs, color \in {Str("#0066CC"), Str("#CC0000")},
          form \in {"series", "list", "lists"} :
        LET kw == [x |-> Indices(Len(y)), y |-> List(y), color |-> color,
                   label |-> Str("s")]
            rs == SeriesConfigNew(kw)
            arg == CASE form = "series" -> Ser(rs.val)
                     [] form = "list"   -> List(<<Ser(rs.val)>>)
                     [] form = "lists"  -> List(<<List(<<Ser(rs.val)>>)>>)
            config == PlotConfigNew(EmptyKw, now).val
            r == CreateLinePlotOp(arg, config, <<1, 1>>)
        IN
        /\ rs.ok
        /\ figs' = figs \o r.created
        /\ last' = [op |-> "line_plot_smoke", series |-> arg,
                    config |-> config, ok |-> r.ok, exc |-> r.exc,
                    msg |-> r.msg, ret |-> r.ret]
        /\ UNCHANGED <<objs, registry, h, now, nupd, series, sobj, arrs, fs>>

\* The effect of an export call with outcome r on figure i.
Exported(i, r, module, filepath) ==
    /\ fs.saves < MaxSaves
    /\ fs' = [r.fs EXCEPT !.saves = fs.saves + 1]
    /\ figs' = [figs EXCEPT ![i] = r.fig]
    /\ last' = [op |-> "save_plot", module |-> module, fig |-> i,
                filepath |-> filepath, ok |-> r.ok, exc |-> r.exc,
                ret |-> r.ret, before |-> figs[i], dirs |-> fs.dirs]
    /\ UNCHANGED <<objs, registry, h, now, nupd, series, sobj, arrs>>

\* save_plot(fig, out, dpi=150), of utils.py
SavePlot ==
    \E i \in 1 .. Len(figs), filepath \in PathArgs :
        Exported(i, SavePlotOp(fs, figs[i], filepath, SaveDpi), "utils",
                 filepath)

\* save_plot(fig, out, dpi=150), of core/line_plotter.py
LineSavePlot ==
    \E i \in 1 .. Len(figs), filepath \in PathArgs :
        Exported(i, LineSavePlotOp(fs, figs[i], filepath, SaveDpi),
                 "line_plotter", filepath)

\* save_plot(fig, out, dpi=150), of core/histogram_plotter.py
HistogramSavePlot ==
    \E i \in 1 .. Len(figs), filepath \in PathArgs :
        Exported(i, HistogramSavePlotOp(fs, figs[i], filepath, SaveDpi),
                 "histogram_plotter", filepath)

\* ax.plot(x, x) on the first axes of a figure that was exported
PlotOnAxes ==
    \E i \in 1 .. Len(figs) :
        /\ last.op = "save_plot"
        /\ figs' = [figs EXCEPT ![i].axes[1].artists =
                      Append(@, Line2D(XData.items, XData.items, Str("C0"),
                                       Str("-"), Str(""), None))]
        /\ last' = [op |-> "ax.plot", fig |-> i, before |-> figs[i]]
        /\ UNCHANGED <<objs, registry, h, now, nupd, series, sobj, arrs, fs>>

\* The pipeline of the smoke test: a line plot, then exports.
NextExport ==
    \/ LinePlotSmoke
    \/ SavePlot
    \/ LineSavePlot
    \/ HistogramSavePlot
    \/ PlotOnAxes

SpecExport == Init /\ [][NextExport]_vars


(***************************************************************************)
(* Properties.                                                             *)
(***************************************************************************)
\* The object a handle names.
Obj(v) == objs[h[v]]

\* Dataclass equality: every field equal.
ConfigEq(a, b) == \A f \in Fields : a[f] = b[f]

Given(kw, f) == f \in DOMAIN kw /\ kw[f] # None

\* The value keyword f has in kw, or the field's default.
ArgOr(kw, f) == IF f \in DOMAIN kw THEN kw[f] ELSE FieldDefaults[f]

ConstructedOk == last.op = "construct" /\ last.ok

SeriesCall == last.op = "SeriesConfig"

XGiven == "x" \in DOMAIN last.kwargs

XLen == Len(last.kwargs.x.items)

YLen == Len(last.kwargs.y.items)

\* C1: a configuration written with to_dict / to_yaml and read back with
\* from_dict / from_yaml equals the original in every field.
C1_RoundTripLossless ==
    last.op \in {"roundtrip_dict", "roundtrip_yaml"} =>
        last.ok /\ ConfigEq(Obj("cfg2"), Obj("cfg"))

\* C2: SeriesConfig construction fails with a ValueError naming both lengths
\* exactly when x is given and len(x) # len(y); otherwise it succeeds.
C2_LengthCheck ==
    SeriesCall =>
        IF XGiven /\ XLen # YLen
        THEN /\ ~last.ok
             /\ last.exc = "ValueError"
             /\ last.msg[2] = XLen /\ last.msg[3] = YLen
             /\ series = NoSeries
        ELSE /\ last.ok
             /\ series.y.items = last.kwargs.y.items
             /\ IF XGiven THEN series.x.items = last.kwargs.x.items
                ELSE series.x = None

C2_Witness ==
    /\ SeriesCall /\ XGiven
    /\ XLen = 2 /\ YLen = 1
    /\ ~last.ok

C2_WitnessEmpty ==
    /\ SeriesCall /\ XGiven
    /\ XLen = 0 /\ YLen = 0
    /\ last.ok

\* C3: a series built from y-values and a primary colour alone has marker
\* face colour, marker edge colour, fill colour and hatch colour equal to
\* the primary colour.
C3_ColorsFromPrimary ==
    (SeriesCall /\ DOMAIN last.kwargs \subseteq {"y", "x", "color"}) =>
        /\ last.ok => /\ series.marker_facecolor = series.color
                      /\ series.marker_edgecolor = series.color
                      /\ series.fill_color = series.color
                      /\ series.hatch_color = series.color
                      /\ series.color = (IF "color" \in DOMAIN last.kwargs
                                         THEN last.kwargs.color
                                         ELSE SeriesDefaults.color)

C3_Witness ==
    /\ SeriesCall /\ last.ok
    /\ DOMAIN last.kwargs = {"y", "color"}
    /\ series.hatch_color = SeriesColors.color

ColorDependent == {"marker_facecolor", "marker_edgecolor", "fill_color", "hatch_color"}

\* C4 as stated: every colour-dependent field left unset equals the primary
\* colour, whatever the other colour fields were given.
C4_UnsetEqualsPrimary ==
    (SeriesCall /\ last.ok) =>
        \A f \in ColorDependent \ DOMAIN last.kwargs : series[f] = series.color

\* C4 as amended: marker face colour, marker edge colour and fill colour left
\* unset equal the primary colour; a hatch colour left unset equals the fill
\* colour, which is the primary colour only when that is unset too; a colour
\* given explicitly is kept.
C4_UnsetDefaults ==
    (SeriesCall /\ last.ok) =>
        /\ \A f \in {"marker_facecolor", "marker_edgecolor", "fill_color"} :
              series[f] = (IF f \in DOMAIN last.kwargs THEN last.kwargs[f]
                           ELSE series.color)
        /\ series.hatch_color =
              (IF "hatch_color" \in DOMAIN last.kwargs THEN last.kwargs.hatch_color
               ELSE IF "fill_color" \in DOMAIN last.kwargs THEN last.kwargs.fill_color
               ELSE series.color)

C4_Witness ==
    /\ SeriesCall /\ last.ok
    /\ "fill_color" \in DOMAIN last.kwargs
    /\ "hatch_color" \notin DOMAIN last.kwargs
    /\ series.fill_color # series.color
    /\ series.hatch_color = series.fill_color

\* C5: with an aspect ratio given, figure_height is figure_width divided by
\* it, whatever figure_height was passed; without one, the passed or default
\* figure_height is kept. (A ratio of 0 cannot be divided by: the constructor
\* raises ZeroDivisionError and builds nothing.)
C5_AspectRatio ==
    last.op = "construct" =>
        LET kw == last.kwargs IN
        IF Given(kw, "aspect_ratio") /\ kw.aspect_ratio.n = 0
        THEN ~last.ok /\ last.exc = "ZeroDivisionError" /\ h["cfg"] = 0
        ELSE /\ last.ok
             /\ Obj("cfg").figure_width = ArgOr(kw, "figure_width")
             /\ Obj("cfg").aspect_ratio = ArgOr(kw, "aspect_ratio")
             /\ Obj("cfg").figure_height =
                  (IF Given(kw, "aspect_ratio")
                   THEN TrueDiv(ArgOr(kw, "figure_width"), kw.aspect_ratio)
                   ELSE ArgOr(kw, "figure_height"))

C5_Witness ==
    /\ ConstructedOk
    /\ Given(last.kwargs, "aspect_ratio")
    /\ Given(last.kwargs, "figure_height")
    /\ Obj("cfg").figure_height # last.kwargs.figure_height
    /\ Obj("cfg").figure_height = IntV(2)

\* C6: in every state, a configuration with an aspect ratio has
\* figure_height = figure_width / aspect_ratio.
C6_AspectInvariant ==
    \A v \in Bound :
        (Obj(v).aspect_ratio # None /\ Obj(v).aspect_ratio.n # 0) =>
            Obj(v).figure_height = TrueDiv(Obj(v).figure_width, Obj(v).aspect_ratio)

\* C7: at construction each per-axis size left unset takes its shared size
\* (tick_label_size or axis_label_size), and each one given is kept.
C7_PerAxisDefaults ==
    ConstructedOk =>
        \A f \in DOMAIN PerAxis :
            Obj("cfg")[f] = (IF Given(last.kwargs, f) THEN last.kwargs[f]
                             ELSE ArgOr(last.kwargs, PerAxis[f]))

C7_Witness ==
    /\ ConstructedOk
    /\ Given(last.kwargs, "tick_label_size")
    /\ Given(last.kwargs, "x_tick_label_size")
    /\ Obj("cfg").x_tick_label_size = IntV(7)
    /\ Obj("cfg").y_tick_label_size = IntV(9)

\* C8 as stated: no field of a constructed configuration holds None.
C8_NoNoneField ==
    ConstructedOk => \A f \in Fields : Obj("cfg")[f] # None

\* The fields for which None is a value the object keeps: no aspect ratio,
\* automatic title padding, automatic limits and ticks, no subplot adjustment.
KeepsNone == {"aspect_ratio", "title_pad", "x_limits", "x_ticks", "subplot_adjust"}

\* C8 as amended: after construction created and the four per-axis sizes are
\* never None, and no field with a non-None default is None; aspect_ratio,
\* title_pad, the limits, the tick lists and subplot_adjust hold None exactly
\* when they were not given.
C8_FilledExceptOptional ==
    ConstructedOk =>
        /\ \A f \in Fields \ KeepsNone : Obj("cfg")[f] # None
        /\ \A f \in KeepsNone : (Obj("cfg")[f] = None) <=> ~Given(last.kwargs, f)

C8_Witness ==
    /\ ConstructedOk
    /\ last.kwargs = EmptyKw
    /\ Obj("cfg").title_pad = None
    /\ Obj("cfg").x_tick_label_size = IntV(10)
    /\ Obj("cfg").created = Stamp(now)

Mutators == {"update", "setattr", "append"}

\* What a step may change of handle w and its object: only a call made on w
\* (a mutation through w, or binding w to a new result) may change them.
FrameOf(w) ==
    (h[w] # 0 /\ ~(last'.op \in Mutators \cup {"get_preset_config"} /\ last'.dst = w))
        => (h'[w] = h[w] /\ objs'[h[w]] = objs[h[w]])

C9_State ==
    /\ \A i \in 1 .. NPresets : objs[i] = PRESET_CONFIGS[i]
    /\ \A v \in Bound : h[v] > NPresets
    /\ \A v, w \in Bound : v # w => h[v] # h[w]
    /\ last.op = "get_preset_config" =>
          IF last.name \in DOMAIN registry
          THEN last.ok /\ ConfigEq(Obj(last.dst), PRESET_CONFIGS[registry[last.name]])
          ELSE ~last.ok /\ last.exc = "ValueError"

\* C9: every object get_preset_config returns is independent: it is neither
\* a registry entry nor another returned object, a mutation made through one
\* handle changes no other object, the registry entries keep their original
\* values, and each call returns the preset's original field values.
C9_PresetIndependence ==
    /\ []C9_State
    /\ [][\A w \in Handles : FrameOf(w)]_vars
    /\ [][\A i \in 1 .. NPresets : objs'[i] = objs[i]]_vars

C9_Witness ==
    /\ last.op = "get_preset_config" /\ last.ok
    /\ last.name = "nature_style" /\ last.dst = "cfg2"
    /\ h["cfg"] # 0
    /\ Obj("cfg").dpi = Obj("cfg2").dpi
    /\ Obj("cfg").x_ticks = List(<<IntV(1), IntV(2), IntV(3)>>)
    /\ Obj("cfg2").x_ticks = None

ImportCall == last.op \in {"from_dict", "from_yaml"}

\* The value field f of a configuration imported from dict d must have.
Imported(d, f, clock) ==
    IF f = "figure_height" /\ Given(d, "aspect_ratio")
    THEN TrueDiv(ArgOr(d, "figure_width"), d.aspect_ratio)
    ELSE IF f = "x_limits" /\ Given(d, f) THEN Tuple(d[f].items)
    ELSE IF Given(d, f) THEN d[f]
    ELSE IF f = "created" THEN Stamp(clock)
    ELSE IF f \in DOMAIN PerAxis THEN ArgOr(d, PerAxis[f])
    ELSE FieldDefaults[f]

LineCall == last.op = "create_line_plot"

\* The call went past the validation of its arguments (a figure exists).
Validated == figs # <<>>

RECURSIVE Concat(_)
Concat(seqs) == IF seqs = <<>> THEN <<>> ELSE Head(seqs) \o Concat(Tail(seqs))

\* The series objects of an argument, in the order they are drawn.
DrawOrder(arg) ==
    IF arg.t = "SeriesConfig" THEN <<arg.obj>>
    ELSE IF \A i \in 1 .. Len(arg.items) : arg.items[i].t = "SeriesConfig"
    THEN [i \in 1 .. Len(arg.items) |-> arg.items[i].obj]
    ELSE Concat([i \in 1 .. Len(arg.items) |->
                   [j \in 1 .. Len(arg.items[i].items) |->
                      arg.items[i].items[j].obj]])

Invalid(s) == s.line_style = Str("") /\ s.marker = Str("")

\* The last call raised the "no line and no marker" error.
RejectedAsEmpty ==
    /\ ~last.ok
    /\ last.exc = "ValueError"
    /\ last.msg # <<>>
    /\ last.msg[1] = "has no line and no marker"

\* The value keyword f has in kw, or the field's default, for a series.
SeriesArgOr(kw, f) == IF f \in DOMAIN kw THEN kw[f] ELSE SeriesDefaults[f]

\* C11: a series with line_style '' and marker '' is accepted by the
\* constructor; create_line_plot raises ValueError naming the label of the
\* first such series it comes to draw, and raises that error for no series
\* that has a line style or a marker.
C11_RejectedAtDraw ==
    /\ (last.op = "new_series"
        /\ SeriesArgOr(last.kwargs, "line_style") = Str("")
        /\ SeriesArgOr(last.kwargs, "marker") = Str("")) => last.ok
    /\ (LineCall /\ Validated) =>
         LET order == DrawOrder(last.series) IN
         /\ \A i \in 1 .. Len(order) :
              (Invalid(order[i])
               /\ \A j \in 1 .. i - 1 : ~Invalid(order[j]) /\ order[j].x # None)
              => RejectedAsEmpty /\ last.msg[2] = order[i].label
         /\ RejectedAsEmpty =>
              \E i \in 1 .. Len(order) :
                 Invalid(order[i]) /\ last.msg[2] = order[i].label

\* A list of a valid series and the series labelled "n" was refused, and
\* the series labelled "n" was built before.
C11_Witness ==
    /\ LineCall
    /\ RejectedAsEmpty
    /\ last.msg[2] = Str("n")
    /\ Len(DrawOrder(last.series)) = 2
    /\ ~Invalid(DrawOrder(last.series)[1])
    /\ \E v \in SeriesHandles : sobj[v] # NoSeries /\ Invalid(sobj[v])

\* C12: get_plot_type returns 'line+scatter', 'line', 'scatter' or 'none'
\* according to which of line_style and marker are non-empty, and returns
\* 'none' exactly for the series that create_line_plot refuses as having no
\* line and no marker.
C12_PlotType ==
    /\ last.op = "get_plot_type" =>
         LET s == sobj[last.src]
             has_line == s.line_style # Str("")
             has_marker == s.marker # Str("")
         IN  last.ret = CASE has_line /\ has_marker   -> "line+scatter"
                          [] has_line /\ ~has_marker  -> "line"
                          [] ~has_line /\ has_marker  -> "scatter"
                          [] ~has_line /\ ~has_marker -> "none"
    /\ (LineCall /\ Validated /\ Len(DrawOrder(last.series)) = 1) =>
         (RejectedAsEmpty
          <=> GetPlotType(DrawOrder(last.series)[1]) = "none")

C12_Witness ==
    /\ last.op = "get_plot_type"
    /\ last.ret = "line+scatter"

\* A single series of type 'none' was refused by create_line_plot.
C12_WitnessRejected ==
    /\ LineCall
    /\ RejectedAsEmpty
    /\ Len(DrawOrder(last.series)) = 1

\* The styling fields of a series: every field but the data.
StylingFields == SeriesFields \ {"x", "y"}

CopiedOk == last.op = "series_copy" /\ last.ok

\* C13: the object returned by SeriesConfig.copy() has every styling field
\* (label, line and marker properties, hatch, colours, fill properties,
\* z_order) equal to the original's.
C13_CopyPreservesStyle ==
    CopiedOk => \A f \in StylingFields : sobj["c"][f] = sobj["s"][f]

\* The arrays an object refers to.
ArraysOf(v) == {sobj[v][f].id : f \in DataOf(v)}

\* The object of v as a caller sees it, arrays included, now and after the
\* step.
View(v) == Deref(sobj[v], arrs)
ViewAfter(v) == Deref(sobj'[v], arrs')

\* C14: the copy shares no mutable state with the original: the two refer
\* to different arrays, and a change made to one of them, in place to its x
\* or y data or by assigning a field, leaves the other as it was.
C14_CopyIndependent ==
    /\ [](\A v \in BoundSeries, w \in BoundSeries :
            v # w => ArraysOf(v) \cap ArraysOf(w) = {})
    /\ [][\A v \in BoundSeries :
            (last'.op \in {"setitem", "setfield"} /\ last'.dst # v)
            => ViewAfter(v) = View(v)]_vars

\* The copy's data was changed in place right after the copy was made.
C14_Witness ==
    /\ last.op = "setitem"
    /\ last.prev = "series_copy"
    /\ last.dst = "c"
    /\ View("c")[last.key] # View("s")[last.key]

SaveCall == last.op = "save_plot"

\* The file the last export call was asked to write.
Target == Resolve(last.filepath)

\* C15: for a valid series and a default PlotConfig, create_line_plot
\* returns a (figure, axes) pair without error, and save_plot of utils.py
\* on that figure returns without error and leaves a non-empty file at the
\* output path.
C15_PipelineCompletes ==
    /\ last.op = "line_plot_smoke" =>
         /\ last.ok
         /\ Len(figs) = 1
         /\ last.ret = [t |-> "tuple", axes |-> "ax"]
    /\ (SaveCall /\ last.module = "utils") =>
         /\ last.ok
         /\ Target \in DOMAIN fs.files
         /\ fs.files[Target] # <<>>

\* The figure of a series of two points was exported by utils.save_plot.
C15_Witness ==
    /\ SaveCall
    /\ last.module = "utils"
    /\ last.ok
    /\ Len(figs[last.fig].axes[1].artists) = 1
    /\ Len(figs[last.fig].axes[1].artists[1].y) = 2
    /\ Target \in DOMAIN fs.files

\* C16: save_plot creates the missing parent directories of the output
\* path, writes the file, returns the resolved path and leaves the figure
\* open and unchanged, whichever save_plot of the package is called and
\* however many times.
C16_ExportKeepsFigure ==
    SaveCall =>
      /\ last.ok
      /\ \A k \in 0 .. Len(Target) - 1 : SubSeq(Target, 1, k) \in fs.dirs
      /\ Target \in DOMAIN fs.files
      /\ last.ret = [t |-> "Path", path |-> Target]
      /\ figs[last.fig] = last.before
      /\ figs[last.fig].open

AreaCall == last.op = "create_area_plot"

\* The number of series objects of the last call's argument.
NSeries == Len(DrawOrder(last.series))

\* The sum of the p-th y value of the first i series of order.
RECURSIVE SumTo(_, _, _)
SumTo(order, i, p) ==
    IF i = 0 THEN 0 ELSE SumTo(order, i - 1, p) + order[i].y.items[p].n

\* The lines of the first axes of the figure drawn last.
LinesDrawn ==
    SelectSeq(figs[Len(figs)].axes[1].artists, LAMBDA a : a.kind = "line")

\* C17: in a stacked area plot with show_line set, the line of series i
\* has at each position the sum of the y values of series 1 .. i there; the
\* topmost line is the sum of all the series.
C17_StackedCumulative ==
    (AreaCall /\ last.ok /\ last.stacked /\ ~last.fill_between
     /\ last.show_line) =>
      LET order == DrawOrder(last.series) IN
      /\ Len(LinesDrawn) = Len(order)
      /\ \A i \in 1 .. Len(order) :
           \A p \in 1 .. Len(order[i].y.items) :
              LinesDrawn[i].y[p] = IntV(SumTo(order, i, p))

\* Three series, not all with the same data, were stacked.
C17_Witness ==
    /\ AreaCall
    /\ last.ok
    /\ last.stacked
    /\ ~last.fill_between
    /\ last.show_line
    /\ NSeries = 3
    /\ DrawOrder(last.series)[1].y # DrawOrder(last.series)[2].y
    /\ LinesDrawn[3].y # LinesDrawn[2].y

\* The last call raised ValueError and no figure was created.
RefusedBeforeFigure == ~last.ok /\ last.exc = "ValueError" /\ figs = <<>>

\* C18: create_line_plot, create_histogram and create_area_plot raise
\* ValueError for an empty series list, and create_area_plot with
\* fill_between set raises ValueError unless it is given exactly two series;
\* no figure was created when the error is raised.
C18_EmptyInputsRefused ==
    /\ (last.op \in {"create_line_plot", "create_histogram", "create_area_plot"}
        /\ last.series = List(<<>>)) => RefusedBeforeFigure
    /\ (AreaCall /\ last.fill_between) =>
         IF NSeries = 2 THEN last.ok ELSE RefusedBeforeFigure

\* fill_between was asked for with three series.
C18_Witness ==
    /\ AreaCall
    /\ last.fill_between
    /\ NSeries = 3
    /\ RefusedBeforeFigure

\* An empty list was passed to create_line_plot.
C18_WitnessEmpty ==
    /\ LineCall
    /\ last.series = List(<<>>)
    /\ RefusedBeforeFigure

\* C19: create_histogram, create_box_plot and create_surface_plot raise a
\* validation error for every orientation or plot-type string outside the
\* supported set, and draw nothing for it.
C19_UnsupportedStringRefused ==
    /\ (last.op \in {"create_histogram", "create_box_plot"}
        /\ last.orientation \notin {"vertical", "horizontal"})
       => RefusedBeforeFigure
    /\ (last.op = "create_surface_plot"
        /\ last.plot_type \notin SurfaceTypes[last.module])
       => RefusedBeforeFigure

\* A list argument that is given (not None) and whose length is not n.
Mismatched(v, n) == v # None /\ Len(v.items) # n

\* C20: create_pie_chart raises a validation error whenever labels,
\* explode, hatches or edge_colors is given with a length other than the
\* number of values.
C20_ListLengthsValidated ==
    (last.op = "create_pie_chart"
     /\ \E v \in {last.labels, last.explode, last.hatches, last.edge_colors} :
           Mismatched(v, Len(last.values.items)))
    => ~last.ok /\ last.exc = "ValueError"

(***************************************************************************)
(* Rendering calls and their inputs.                                       *)
(***************************************************************************)
RenderCalls ==
    {"create_line_plot", "create_histogram", "create_area_plot",
     "create_heatmap", "create_subplots"}

HistCall == last.op = "create_histogram"
HistSeries == AsSeriesList(last.series)

C22_WitnessOwn ==
    /\ HistCall /\ last.ok
    /\ Len(HistSeries) = 1
    /\ figs[1].axes[1].artists[1].edgecolor = Str("navy")
    /\ figs[1].axes[1].artists[1].linewidth = IntV(2)

\* The groups an argument of one of the three shapes stands for: a single
\* object, a flat list of objects, a list of lists.
GroupsOf(arg) ==
    IF arg.t = "SeriesConfig" THEN <<<<arg.obj>>>>
    ELSE IF \A i \in 1 .. Len(arg.items) : arg.items[i].t = "SeriesConfig"
    THEN <<[i \in 1 .. Len(arg.items) |-> arg.items[i].obj]>>
    ELSE [i \in 1 .. Len(arg.items) |->
            [j \in 1 .. Len(arg.items[i].items) |-> arg.items[i].items[j].obj]]

\* The lines on an axes, as the data they were drawn from.
LinesOn(ax) ==
    LET lines == SelectSeq(ax.artists, LAMBDA a : a.kind = "line")
    IN  [k \in 1 .. Len(lines) |-> <<lines[k].x, lines[k].y, lines[k].color>>]

DataOfGroup(group) ==
    [k \in 1 .. Len(group) |->
       <<group[k].x.items, group[k].y.items, group[k].color>>]

C23_WitnessRefused ==
    /\ LineCall /\ ~last.ok
    /\ last.layout = <<1, 2>>
    /\ IsList(last.series) /\ PyLen(last.series) = 2
    /\ Len(GroupsOf(last.series)) = 1
    /\ figs = <<>>

\* The argument is a flat list of series objects.
FlatList(arg) ==
    /\ IsList(arg)
    /\ PyLen(arg) > 0
    /\ \A i \in 1 .. PyLen(arg) : arg.items[i].t = "SeriesConfig"

\* C24: create_line_plot with a flat list of rows * cols series and a
\* layout of more than one subplot returns an array of rows * cols axes
\* with one series drawn on each.
C24_FlatListPerSubplot ==
    (/\ LineCall
     /\ FlatList(last.series)
     /\ PyLen(last.series) = last.layout[1] * last.layout[2]
     /\ PyLen(last.series) > 1
     /\ \A i \in 1 .. PyLen(last.series) :
          ~Invalid(last.series.items[i].obj) /\ last.series.items[i].obj.x # None)
    => /\ last.ok
       /\ last.ret.axes = "array"
       /\ Len(figs[1].axes) = PyLen(last.series)
       /\ \A i \in 1 .. PyLen(last.series) :
            LinesOn(figs[1].axes[i]) = DataOfGroup(<<last.series.items[i].obj>>)

\* The create_subplots call that was made.
SubplotsCall == last.op = "create_subplots"

\* C25: create_subplots(nrows, ncols, ...) with nrows >= 1 and ncols >= 1
\* returns, whatever the other options (width_ratios and height_ratios
\* included), a single Axes object for a 1 x 1 grid, a 1-D array when
\* exactly one of nrows, ncols is 1, and a 2-D nrows x ncols array
\* otherwise; with nrows < 1 or ncols < 1 it raises ValueError.
C25_AxesShape ==
    SubplotsCall =>
        /\ (last.nrows < 1 \/ last.ncols < 1) =>
               ~last.ok /\ last.exc = "ValueError"
        /\ last.ok =>
               last.ret.axes =
                 (IF last.nrows = 1 /\ last.ncols = 1 THEN <<>>
                  ELSE IF last.nrows = 1 \/ last.ncols = 1
                  THEN <<last.nrows * last.ncols>>
                  ELSE <<last.nrows, last.ncols>>)

\* C26: apply_subplot_formatting(ax, config) completes without error for
\* every PlotConfig that can be constructed, the default one and the
\* presets included.
C26_FormattingCompletes ==
    last.op = "apply_subplot_formatting" => last.ok

\* C29: a successful create_subplots call leaves exactly one more figure
\* open in pyplot than there was before it, and that figure is the one
\* returned to the caller, with and without width / height ratios.
C29_OneFigurePerCall ==
    (SubplotsCall /\ last.ok) =>
        /\ Len(figs) = last.before + 1
        /\ last.ret.fig = Len(figs)
        /\ \A i \in 1 .. Len(figs) : figs[i].open

\* The update call that was made.
UpdateCall == last.op = "update"

C27_WitnessIgnored ==
    /\ UpdateCall
    /\ last.key \notin Fields
    /\ Obj(last.dst) = last.before

\* The first object is what the arguments of the second call give at time c.
SameArgsAt(c) ==
    LET r == IF last.how = "construct" THEN PlotConfigNew(last.kwargs, c)
             ELSE FromDict(last.kwargs, c)
    IN  r.ok /\ r.val = Obj("cfg")

\* C28: two constructions, or two from_dict imports, with identical
\* arguments give objects equal in every field, whenever they are made.
C28_Deterministic ==
    (/\ last.op = "construct_again"
     /\ last.ok
     /\ \E c \in 0 .. MaxClock : SameArgsAt(c))
    => ConfigEq(Obj("cfg"), Obj("cfg2"))

\* C30: copy() succeeds for every series that was constructed, one built
\* without x included, and the copy of a series without x has no x either.
C30_CopyWithoutX ==
    last.op = "series_copy" =>
        /\ last.ok
        /\ sobj["s"].x = None => sobj["c"] # NoSeries /\ sobj["c"].x = None

====
